---- MODULE Spec2Model ----
(***************************************************************************)
(* Verification model of the CSP admin batch automation:                   *)
(*   - NetworkCircuitBreaker (src/shared/retry_utils.py) and the shared    *)
(*     instance of src/shared/handler_wrapper.py,                          *)
(*   - ActionCounter (src/shared/action_counter.py),                       *)
(*   - the request pipelines of src/features/csp and src/csp.              *)
(***************************************************************************)
EXTENDS Integers, Naturals, Sequences, FiniteSets, TLC

(***************************************************************************)
(* Bounds of the model.                                                    *)
(***************************************************************************)
NumWorkers == 2
MaxTime == 90
TickStep == 30
MaxExtraCalls == 3
MaxFailureCount == 4
MaxUsers == 2

\* run-automation requests the web interface handles at the same time
MaxRequests == 2

\* results appended to self.results before a report is looked at
MaxResults == 2

MaxStartRetries == 2
MaxPoolWorkers == 2
MaxNetFailures == 7
MaxAsked == 1
MaxRetries == 5

(***************************************************************************)
(* Program constants.                                                      *)
(***************************************************************************)
failure_threshold == 3
cooldown_seconds == 60

Workers == 1..NumWorkers
NoTime == -1            \* last_failure_time = None, elapsed not computed
Outcomes == {"ok", "net", "other"}

None == "None"
\* values the Role field and the Bank user / Scope fields can show
Roles == {"Teller", "Supervisor"}
Leaves == {"HN01", "HN02"}
\* new_role and branch_hierarchy[2] of a request
NewRoles == {None, "Supervisor"}
\* Short: a branch_hierarchy list with one or two levels, which has no leaf
Short == "Short"
BranchRequests == {None, "HN02", Short}

VARIABLES
    \* NetworkCircuitBreaker fields
    failure_count, last_failure_time, is_open,
    \* wall clock read by time.time()
    now,
    \* per caller of NetworkCircuitBreaker.call: position and locals
    cpc, elapsed, fc_read, was_probe, entered_late,
    \* observations of the finished calls (history)
    last_result, fn_time, last_probe, streak, net_failures, any_success

cbShared == <<failure_count, last_failure_time, is_open>>
cbLocals == <<elapsed, fc_read, was_probe, entered_late>>
cbLast == <<last_result, last_probe>>
cbHist == <<streak, net_failures, any_success, fn_time>>
cbVars == <<cbShared, now, cpc, cbLocals, cbLast, cbHist>>

\* ActionCounter fields and the driver actions dispatched through it
VARIABLES count, max_actions, dispatched, last_act

acVars == <<count, max_actions, dispatched, last_act>>

\* process_user_simple: position in the pipeline, the request, the fields of the
\* Edit user modal, and observations of the request (history)
VARIABLES step, attempt, new_role, branch_hierarchy,
          role_field, bank_user_field, scope_field,
          save_issued, applied, already, status, branch_step,
          \* Save clicks of the request that the driver carried out, and the
          \* step whose handler reported a failure (history)
          save_clicks, failed_step,
          \* the step name held by the result dict that process_user_simple returns
          reported_step,
          \* what circuit_breaker.call did in the last call of the request and in
          \* the one before: invoked the handler, or raised without invoking it
          last_call, prev_call,
          \* the seconds execute_with_retry slept before the current attempt
          delay

psRequest == <<new_role, branch_hierarchy, already>>
psFields == <<role_field, bank_user_field, scope_field>>
psVars == <<step, attempt, psRequest, psFields,
            save_issued, applied, status, branch_step, save_clicks, failed_step,
            reported_step, last_call, prev_call, delay>>

\* CSPAdminRoleAndBranchChanger.run_batch: parameters, position, the driver
\* session, self.results (per request: entries, and whether one is a success /
\* a failure), success_count and what the call ended with; the report file
\* of save_results (empty while none is written, else the entries it holds)
VARIABLES per_user_session, start_retries, total_users, parallel_workers,
          rpc, user, start_attempt, session, pending,
          results, has_success, has_failed, success_count, returned, report

rbParams == <<per_user_session, start_retries, total_users, parallel_workers>>
rbStore == <<results, has_success, has_failed, success_count, report>>
rbVars == <<rbParams, rpc, user, start_attempt, session, pending, rbStore, returned>>

\* csp_admin_parallel.main: parameters and environment, the requests, the
\* futures of the executor, the collected results and what the call ended with
VARIABLES max_workers, api_key, submitted, found, steps_ok, wants_change,
          future, task_result, entries, entry_status, pool_returned

plParams == <<max_workers, api_key, submitted, found, steps_ok, wants_change>>
plVars == <<plParams, future, task_result, entries, entry_status, pool_returned>>

\* the Login step of consecutive requests: the runner (process_user_simple,
\* or run_batch of the legacy module), and as history the requests in a row
\* whose login was given up after network errors only, their number when the
\* request in progress was taken up, whether this request has met network
\* errors only, and what became of its first attempt
VARIABLES legacy, net_logins, prior_net, only_net, first_call

lgVars == <<legacy, net_logins, prior_net, only_net, first_call>>

\* main of csp_admin.py (interactive) and of csp_admin_main.py: the requests,
\* position, the NovaAct object, the outcome of the request in hand, the
\* counters, the retries granted by the operator, how each request ended
\* (history) and what the call ended with.  The driver session is `session`.
VARIABLES interactive, num_users, current_user_index, mpc, nova, res,
          m_success_count, total_processed, asked, ended, main_returned,
          failed_count_m

mnParams == <<interactive, num_users>>
mnCounts == <<m_success_count, total_processed, asked, ended, failed_count_m>>
mnVars == <<mnParams, current_user_index, mpc, nova, res, mnCounts, main_returned>>

\* run_batch without its session
rbButSession == <<rbParams, rpc, user, start_attempt, pending, rbStore, returned>>

\* one call of a function wrapped by with_retry: the decorator's arguments, the
\* loop variables, the invocations of fn made so far (the outcome of each),
\* and what the call ended with (the value returned is the number of the
\* invocation that produced it, an error is the number of the one that raised it)
VARIABLES wr_max_retries, retry_delay, wr_attempt, current_delay, last_exception,
          invocations, slept, wr_end, wr_value

wrParams == <<wr_max_retries, retry_delay>>
wrVars == <<wrParams, wr_attempt, current_delay, last_exception, invocations,
            slept, wr_end, wr_value>>

\* one run of the role step (change_user_role of the legacy module, or
\* CSPRoleHandler.change_role): the implementation, the position, the driver
\* actions issued after the pre-check, what the pre-check and the verification
\* reported, session_data['last_role_change_performed'], how the run ended, and
\* the number of runs so far
VARIABLES impl, rl_pc, mutations, pre_match, verified, performed, rl_outcome,
          rl_calls

rlVars == <<impl, rl_pc, mutations, pre_match, verified, performed, rl_outcome,
           rl_calls>>

\* one request in process_single_user of the legacy module: the position, what
\* the request asks for, the two flags of session_data, the clicks on Save, the
\* edit modal, the status of the result appended, and the requests so far;
\* whether the role step and the branch step of this request changed their
\* field, and the words of the status appended
VARIABLES lu_pc, role_requested, branch_requested, role_flag, branch_flag,
          lu_saves, modal, lu_status, lu_requests, role_own, branch_own, lu_text

luVars == <<lu_pc, role_requested, branch_requested, role_flag, branch_flag,
           lu_saves, modal, lu_status, lu_requests, role_own, branch_own, lu_text>>

\* the session starts of run_batch: for each request the starts that raised
\* StartFailed and the results with the status 'failed - start timeout'
VARIABLES start_failed, start_timeouts

shVars == <<start_failed, start_timeouts>>

\* one wait for the page to settle: the call site, the ceiling, the seconds
\* since start_time, the observations made, the last observation, what the
\* wait returned, and what the calling step did with it
VARIABLES wt_site, timeout_seconds, wt_elapsed, polls, observed, wt_result,
          step_result

wtVars == <<wt_site, timeout_seconds, wt_elapsed, polls, observed, wt_result,
           step_result>>

\* the variables of the single steps
zVars == <<rlVars, luVars, wtVars>>

\* the driver sessions of the parallel run: the session held by the local
\* variable nova of each call (0: none), the NovaAct objects constructed so far,
\* and for each of them the calls that have acted on it
VARIABLES nova_of, sessions_made, users_of

nvVars == <<nova_of, sessions_made, users_of>>

\* the web interface: automation_status['running'] and ['success'], the
\* position of each run-automation request in its handler, and the background
\* thread each request started
VARIABLES running, web_success, wpc, bg

wbVars == <<running, web_success, wpc, bg>>

\* the report of the legacy module: the statuses of self.results in the order
\* they were appended, and the file written by save_results (empty while none
\* is written)
VARIABLES recorded, report_data

rpVars == <<recorded, report_data>>

\* the variables of the web interface and of the report
gVars == <<wbVars, rpVars>>

\* the variables of the session starts and of the sessions of the parallel run,
\* of the web interface and of the report
hVars == <<shVars, nvVars, gVars>>

\* the variables of the single steps, the session starts and the sessions
yVars == <<zVars, hVars>>

\* the variables of the batch runners and of the single steps
xVars == <<rbVars, plVars, lgVars, mnVars, wrVars, yVars>>

vars == <<cbVars, acVars, psVars, xVars>>

(***************************************************************************)
(* Components not in use                                                   *)
(***************************************************************************)
\* an ActionCounter not in use
CounterIdle ==
    /\ count = 0
    /\ max_actions = 0
    /\ dispatched = 0
    /\ last_act = "none"

\* no request in progress
PipelineIdle ==
    /\ step = "idle"
    /\ attempt = 0
    /\ new_role = None
    /\ branch_hierarchy = None
    /\ already = FALSE
    /\ role_field = "Teller"
    /\ bank_user_field = "HN01"
    /\ scope_field = "HN01"
    /\ save_issued = FALSE
    /\ applied = FALSE
    /\ status = "none"
    /\ branch_step = "none"
    /\ save_clicks = 0
    /\ failed_step = "none"
    /\ reported_step = "none"
    /\ last_call = "none"
    /\ prev_call = "none"
    /\ delay = 0

\* no run_batch call in progress
BatchIdle ==
    /\ per_user_session = TRUE
    /\ start_retries = 0
    /\ total_users = 0
    /\ parallel_workers = 0
    /\ rpc = "idle"
    /\ user = 0
    /\ start_attempt = 0
    /\ session = "none"
    /\ pending = "none"
    /\ results = [u \in 1..MaxUsers |-> 0]
    /\ has_success = [u \in 1..MaxUsers |-> FALSE]
    /\ has_failed = [u \in 1..MaxUsers |-> FALSE]
    /\ success_count = 0
    /\ returned = "none"
    /\ report = <<>>

\* no csp_admin_parallel.main call in progress
PoolIdle ==
    /\ max_workers = 0
    /\ api_key = TRUE
    /\ submitted = 0
    /\ found = [u \in 1..MaxUsers |-> TRUE]
    /\ steps_ok = [u \in 1..MaxUsers |-> TRUE]
    /\ wants_change = [u \in 1..MaxUsers |-> FALSE]
    /\ future = [u \in 1..MaxUsers |-> "none"]
    /\ task_result = [u \in 1..MaxUsers |-> "none"]
    /\ entries = [u \in 1..MaxUsers |-> 0]
    /\ entry_status = [u \in 1..MaxUsers |-> "none"]
    /\ pool_returned = "none"

\* no login observed
LoginsIdle ==
    /\ legacy = FALSE
    /\ net_logins = 0
    /\ prior_net = 0
    /\ only_net = TRUE
    /\ first_call = "none"

\* no main call in progress
MainIdle ==
    /\ interactive = TRUE
    /\ num_users = 0
    /\ current_user_index = 0
    /\ mpc = "idle"
    /\ nova = "None"
    /\ res = "none"
    /\ m_success_count = 0
    /\ total_processed = 0
    /\ asked = 0
    /\ ended = [u \in 1..MaxUsers |-> "none"]
    /\ main_returned = "none"
    /\ failed_count_m = 0

\* no call of a with_retry wrapper in progress
RetryIdle ==
    /\ wr_max_retries = 0
    /\ retry_delay = 0
    /\ wr_attempt = 0
    /\ current_delay = 0
    /\ last_exception = 0
    /\ invocations = <<>>
    /\ slept = 0
    /\ wr_end = "idle"
    /\ wr_value = 0

\* no role step in progress
RoleIdle ==
    /\ impl = "handler"
    /\ rl_pc = "idle"
    /\ mutations = 0
    /\ pre_match = "none"
    /\ verified = "none"
    /\ performed = "unset"
    /\ rl_outcome = "none"
    /\ rl_calls = 0

\* no request in the legacy process_single_user
LegacyIdle ==
    /\ lu_pc = "idle"
    /\ role_requested = FALSE
    /\ branch_requested = FALSE
    /\ role_flag = "unset"
    /\ branch_flag = "unset"
    /\ lu_saves = 0
    /\ modal = "none"
    /\ lu_status = "none"
    /\ lu_requests = 0
    /\ role_own = FALSE
    /\ branch_own = FALSE
    /\ lu_text = <<>>

\* no session start yet
StartsIdle ==
    /\ start_failed = [u \in 1..MaxUsers |-> 0]
    /\ start_timeouts = [u \in 1..MaxUsers |-> 0]

\* no session of the parallel run yet
NovasIdle ==
    /\ nova_of = [u \in 1..MaxUsers |-> 0]
    /\ sessions_made = 0
    /\ users_of = [n \in 1..MaxUsers |-> {}]

\* web_app.py lines 19-23: no request to the web interface yet
WebIdle ==
    /\ running = FALSE
    /\ web_success = "None"
    /\ wpc = [r \in 1..MaxRequests |-> "idle"]
    /\ bg = [r \in 1..MaxRequests |-> "none"]

\* line 132 of the legacy module: self.results is empty, no report written
ReportIdle ==
    /\ recorded = <<>>
    /\ report_data = <<>>

\* no session start and no session of the parallel run, no web request and no
\* report
HistoryIdle == StartsIdle /\ NovasIdle /\ WebIdle /\ ReportIdle

\* no wait in progress
WaitIdle ==
    /\ wt_site = "none"
    /\ timeout_seconds = 0
    /\ wt_elapsed = 0
    /\ polls = 0
    /\ observed = "none"
    /\ wt_result = "idle"
    /\ step_result = "none"

\* the single steps not in use
StepsIdle == RoleIdle /\ LegacyIdle /\ WaitIdle /\ HistoryIdle

\* the batch runners and the single steps not in use
RunnersIdle == BatchIdle /\ PoolIdle /\ LoginsIdle /\ MainIdle /\ RetryIdle /\ StepsIdle

(***************************************************************************)
(* NetworkCircuitBreaker                                                   *)
(***************************************************************************)
\* __init__ (lines 236-241): closed, no failure recorded
BreakerInit ==
    /\ CounterIdle
    /\ PipelineIdle
    /\ RunnersIdle
    /\ failure_count = 0
    /\ last_failure_time = NoTime
    /\ is_open = FALSE
    /\ now = 0
    /\ cpc = [w \in Workers |-> "idle"]
    /\ elapsed = [w \in Workers |-> NoTime]
    /\ fc_read = [w \in Workers |-> 0]
    /\ was_probe = [w \in Workers |-> FALSE]
    /\ entered_late = [w \in Workers |-> FALSE]
    /\ last_result = "none"
    /\ fn_time = NoTime
    /\ last_probe = FALSE
    /\ streak = 0
    /\ net_failures = 0
    /\ any_success = FALSE

AllIdle == \A w \in Workers : cpc[w] = "idle"

\* some caller performed the half-open transition and its call is unresolved
ProbeInFlight == \E v \in Workers : was_probe[v] /\ cpc[v] # "idle"

\* lines 247-250: elapsed = inf if never failed (any value >= cooldown_seconds
\* behaves alike), else time.time() - last_failure_time
Elapsed(t, lft) == IF lft = NoTime THEN cooldown_seconds ELSE t - lft

\* line 252: the open circuit still rejects
StillCooling(e) == e < cooldown_seconds

\* the threshold test off by one
ReachedThresholdStrict(c) == c > failure_threshold

\* line 278: threshold test
ReachedThreshold(c) == c >= failure_threshold

\* the success path leaves the counter alone
CountAfterSuccessKept(c) == c

\* line 270: value stored in failure_count on success
CountAfterSuccess(c) == 0

Min(a, b) == IF a < b THEN a ELSE b

\* the call goes on to statement l
Goto(w, l) ==
    /\ cpc' = [cpc EXCEPT ![w] = l]
    /\ UNCHANGED <<last_result, last_probe, acVars, psVars, xVars>>

\* the call leaves NetworkCircuitBreaker.call (return or raise); its frame is dropped
Finish(w, r) ==
    /\ cpc' = [cpc EXCEPT ![w] = "idle"]
    /\ elapsed' = [elapsed EXCEPT ![w] = NoTime]
    /\ fc_read' = [fc_read EXCEPT ![w] = 0]
    /\ was_probe' = [was_probe EXCEPT ![w] = FALSE]
    /\ entered_late' = [entered_late EXCEPT ![w] = FALSE]
    /\ last_result' = r
    /\ last_probe' = was_probe[w]
    /\ UNCHANGED <<acVars, psVars, xVars>>

\* call(): entry and line 246, `if self.is_open:`
CallBegin(w) ==
    /\ cpc[w] = "idle"
    /\ Goto(w, IF is_open THEN "L250" ELSE "L265")
    /\ entered_late' = [entered_late EXCEPT ![w] = (~is_open) /\ ProbeInFlight]
    /\ UNCHANGED <<cbShared, now, elapsed, fc_read, was_probe, cbHist>>

\* a rejected call counted as one more failure
CountAfterRejectionCounted(c) == c + 1

\* lines 252-257: the raise of "Circuit breaker is OPEN" is outside the try
\* block of line 264 and assigns nothing; value of failure_count after it
CountAfterRejection(c) == c

\* lines 247-257: compute elapsed; raise "Circuit breaker is OPEN" while cooling
CheckCooldown(w) ==
    /\ cpc[w] = "L250"
    /\ LET e == Elapsed(now, last_failure_time) IN
          IF StillCooling(e)
             THEN /\ Finish(w, "rejected")
                  /\ failure_count' = CountAfterRejection(failure_count)
             ELSE /\ Goto(w, "L260")
                  /\ elapsed' = [elapsed EXCEPT ![w] = e]
                  /\ UNCHANGED <<failure_count, fc_read, was_probe, entered_late>>
    /\ UNCHANGED <<last_failure_time, is_open, now, cbHist>>

\* line 260: half-open, `self.is_open = False`
HalfOpen(w) ==
    /\ cpc[w] = "L260"
    /\ is_open' = FALSE
    /\ was_probe' = [was_probe EXCEPT ![w] = TRUE]
    /\ Goto(w, "L265")
    /\ UNCHANGED <<failure_count, last_failure_time, now, elapsed, fc_read,
                   entered_late, cbHist>>

\* line 265: the wrapped function returns or raises; line 274 classifies the error
FuncReturn(w, o) ==
    /\ cpc[w] = "L265"
    /\ streak' = IF o = "net" THEN Min(streak + 1, failure_threshold) ELSE 0
    /\ net_failures' = IF o = "net" /\ ~any_success
                          THEN Min(net_failures + 1, failure_threshold + 1)
                          ELSE net_failures
    /\ any_success' = (any_success \/ o = "ok")
    /\ fn_time' = now
    /\ CASE o = "ok"    -> /\ Goto(w, "L270")
                           /\ UNCHANGED cbLocals
         [] o = "net"   -> /\ Goto(w, "L275r")
                           /\ UNCHANGED cbLocals
         [] o = "other" -> Finish(w, "raised_other")
    /\ UNCHANGED <<cbShared, now>>

\* line 270: `self.failure_count = 0`, line 271: return result
ResetOnSuccess(w) ==
    /\ cpc[w] = "L270"
    /\ failure_count' = CountAfterSuccess(failure_count)
    /\ Finish(w, "returned")
    /\ UNCHANGED <<last_failure_time, is_open, now, cbHist>>

\* line 275: `self.failure_count += 1`, the load of the attribute
FailRead(w) ==
    /\ cpc[w] = "L275r"
    /\ fc_read' = [fc_read EXCEPT ![w] = failure_count]
    /\ Goto(w, "L275w")
    /\ UNCHANGED <<cbShared, now, elapsed, was_probe, entered_late, cbHist>>

\* line 275: `self.failure_count += 1`, the store of the incremented value
FailWrite(w) ==
    /\ cpc[w] = "L275w"
    /\ failure_count' = fc_read[w] + 1
    /\ Goto(w, "L276")
    /\ UNCHANGED <<last_failure_time, is_open, now, cbLocals, cbHist>>

\* line 276: `self.last_failure_time = time.time()`
FailTime(w) ==
    /\ cpc[w] = "L276"
    /\ last_failure_time' = now
    /\ Goto(w, "L278")
    /\ UNCHANGED <<failure_count, is_open, now, cbLocals, cbHist>>

\* line 278: `if self.failure_count >= self.failure_threshold`, else line 286 raise
FailCheck(w) ==
    /\ cpc[w] = "L278"
    /\ IF ReachedThreshold(failure_count)
          THEN /\ Goto(w, "L279")
               /\ UNCHANGED cbLocals
          ELSE Finish(w, "raised_net")
    /\ UNCHANGED <<cbShared, now, cbHist>>

\* line 279: `self.is_open = True`, line 286: raise
FailOpen(w) ==
    /\ cpc[w] = "L279"
    /\ is_open' = TRUE
    /\ Finish(w, "raised_net")
    /\ UNCHANGED <<failure_count, last_failure_time, now, cbHist>>

\* time passes
Tick ==
    /\ now + TickStep <= MaxTime
    /\ now' = now + TickStep
    /\ UNCHANGED <<cbShared, cpc, cbLocals, cbLast, cbHist, acVars, psVars, xVars>>

\* one caller at a time (csp_admin.main: requests processed one after another)
CallBeginSeq(w) == AllIdle /\ CallBegin(w)

BreakerStep(w) ==
    \/ CheckCooldown(w)
    \/ HalfOpen(w)
    \/ \E o \in Outcomes : FuncReturn(w, o)
    \/ ResetOnSuccess(w)
    \/ FailRead(w)
    \/ FailWrite(w)
    \/ FailTime(w)
    \/ FailCheck(w)
    \/ FailOpen(w)

NextSeq == Tick \/ \E w \in Workers : (CallBeginSeq(w) \/ BreakerStep(w))

\* callers overlap (csp_admin_parallel.main: ThreadPoolExecutor workers)
NextPar == Tick \/ \E w \in Workers : (CallBegin(w) \/ BreakerStep(w))

SpecSeq == BreakerInit /\ [][NextSeq]_vars
SpecPar == BreakerInit /\ [][NextPar]_vars

(***************************************************************************)
(* Circuit breaker properties                                              *)
(***************************************************************************)
\* C1: after failure_threshold consecutive network-classified failures of call
\* (calls made one after another) the breaker is open, and a call made before
\* the cooldown has elapsed does not reach the wrapped function.
C1_OpenAfterThreshold ==
    /\ (AllIdle /\ streak >= failure_threshold) => is_open
    /\ \A w \in Workers :
          (cpc[w] = "L265" /\ streak >= failure_threshold)
              => elapsed[w] >= cooldown_seconds

\* the call following the threshold-th consecutive failure was rejected
C1_Witness ==
    /\ AllIdle
    /\ streak >= failure_threshold
    /\ is_open
    /\ last_result = "rejected"

\* C2: once the cooldown has elapsed at most one caller is inside the wrapped
\* function until the half-open probe has resolved.
C2_SingleProbe ==
    Cardinality({w \in Workers :
                    cpc[w] = "L265" /\ (was_probe[w] \/ entered_late[w])}) <= 1

\* C3: a failed half-open probe, whatever its error, leaves the breaker open
\* with the cooldown restarted at the time of that failure.
C3_ProbeFailureReopens ==
    (AllIdle /\ last_probe /\ last_result \in {"raised_net", "raised_other"})
        => (is_open /\ last_failure_time >= fn_time)

\* C4: after a call whose wrapped function returned normally, failure_count is 0
\* and the breaker is closed.
C4_SuccessResets ==
    (AllIdle /\ last_result = "returned") => (failure_count = 0 /\ ~is_open)

\* a half-open probe succeeded after the breaker had been open
C4_Witness ==
    /\ AllIdle
    /\ last_result = "returned"
    /\ last_probe
    /\ last_failure_time # NoTime

\* C5: k network failures recorded by concurrent workers with no success in
\* between leave failure_count = k, and the breaker open once k is the threshold.
C5_NoLostUpdate ==
    (AllIdle /\ ~any_success /\ net_failures <= failure_threshold)
        => /\ failure_count = net_failures
           /\ (net_failures = failure_threshold
                   /\ StillCooling(Elapsed(now, last_failure_time)) => is_open)

\* C34: the steps of a call that the open breaker rejects (the test of is_open
\* and the test of the cooldown that raises) leave failure_count,
\* last_failure_time and is_open as they are.
C34_RejectionKeepsState ==
    [][\A w \in Workers :
          (\/ cpc[w] = "idle" /\ cpc'[w] = "L250"
           \/ cpc[w] = "L250" /\ cpc'[w] = "idle")
             => /\ failure_count' = failure_count
                /\ last_failure_time' = last_failure_time
                /\ is_open' = is_open]_vars

\* a call was rejected some time after the failure that opened the breaker,
\* whose count and time are still those of that failure
C34_Witness ==
    /\ AllIdle
    /\ last_result = "rejected"
    /\ is_open
    /\ failure_count = failure_threshold
    /\ last_failure_time # NoTime
    /\ now > last_failure_time

\* C39: between the calls of a single caller an open breaker has at least
\* failure_threshold failures counted and a time of last failure, and a count
\* of at least failure_threshold means the breaker is open.
C39_OpenIffThreshold ==
    AllIdle =>
        /\ is_open => (failure_count >= failure_threshold /\ last_failure_time # NoTime)
        /\ failure_count >= failure_threshold => is_open

(***************************************************************************)
(* ActionCounter                                                           *)
(***************************************************************************)
\* ceilings the program constructs counters with: the handlers' 50
\* (csp_branch_handler.py:22, csp_user_search_handler.py:21) and the default 100
Ceilings == {50, 100}

\* a breaker not in use
BreakerIdle ==
    /\ failure_count = 0
    /\ last_failure_time = NoTime
    /\ is_open = FALSE
    /\ now = 0
    /\ cpc = [w \in Workers |-> "idle"]
    /\ elapsed = [w \in Workers |-> NoTime]
    /\ fc_read = [w \in Workers |-> 0]
    /\ was_probe = [w \in Workers |-> FALSE]
    /\ entered_late = [w \in Workers |-> FALSE]
    /\ last_result = "none"
    /\ last_probe = FALSE
    /\ streak = 0
    /\ net_failures = 0
    /\ any_success = FALSE
    /\ fn_time = NoTime

\* __init__ (lines 23-34)
CounterInit ==
    /\ count = 0
    /\ max_actions \in Ceilings
    /\ dispatched = 0
    /\ last_act = "none"
    /\ BreakerIdle
    /\ PipelineIdle
    /\ RunnersIdle

\* the ceiling test made one call too late
ExceededLate(c, m) == c > m + 1

\* line 53: `if self.count > self.max_actions`
Exceeded(c, m) == c > m

\* safe_act (lines 51-70): increment, raise InfiniteLoopException past the
\* ceiling, else dispatch nova.act, which returns or raises (o)
SafeAct(o) ==
    /\ count < max_actions + MaxExtraCalls
    /\ count' = count + 1
    /\ IF Exceeded(count + 1, max_actions)
          THEN /\ last_act' = "InfiniteLoop"
               /\ UNCHANGED dispatched
          ELSE /\ last_act' = o
               /\ dispatched' = dispatched + 1
    /\ UNCHANGED <<max_actions, cbVars, psVars, xVars>>

\* reset (lines 72-75)
Reset ==
    /\ count > 0
    /\ count' = 0
    /\ dispatched' = 0
    /\ last_act' = "none"
    /\ UNCHANGED <<max_actions, cbVars, psVars, xVars>>

NextCounter == Reset \/ \E o \in {"returned", "driver_error"} : SafeAct(o)

SpecCounter == CounterInit /\ [][NextCounter]_vars

\* C6: safe_act counts before it dispatches and raises past the ceiling without
\* dispatching: between two resets at most max_actions driver actions are
\* dispatched, and once the ceiling is passed every safe_act raises.
C6_CeilingHolds ==
    /\ dispatched = Min(count, max_actions)
    /\ count > max_actions => last_act = "InfiniteLoop"
    /\ count <= max_actions /\ count > 0 => last_act \in {"returned", "driver_error"}

\* safe_act was called again after the ceiling had been passed
C6_Witness ==
    /\ count > max_actions + 1
    /\ dispatched = max_actions
    /\ last_act = "InfiniteLoop"

(***************************************************************************)
(* process_user_simple: login, search, role, branch, save, each step run   *)
(* by HandlerWrapper.execute_with_retry through the shared breaker         *)
(***************************************************************************)
\* max_retries passed to execute_with_retry for each step
\* (csp_admin.py lines 51, 64, 81, 94, 110)
max_retries == [login |-> 5, search |-> 5, role |-> 5, branch |-> 5, save |-> 3]

\* ActionCounter(max_actions=50) of CSPUserSearchHandler and CSPBranchHandler
HandlerCeiling == [search |-> 50, branch |-> 50]

\* nova.act_get queries: they do not go through the ActionCounter
Queries == {"GET_bank_checked", "GET_scope_shows"}

\* the driver calls of search_and_open_edit, in order
SearchEvents == <<"more_filters", "login_field", "search_button", "open_edit">>

\* the driver calls of change_branch_hierarchical, _change_bank_user and
\* _change_scope, in order
BranchEvents ==
    <<"roles_tab",
      "bank_field", "bank_left", "bank_middle", "bank_check",
      "GET_bank_checked", "bank_select",
      "scope_field", "scope_left", "scope_middle", "scope_check",
      "scope_select", "GET_scope_shows">>

\* number of safe_act calls among the first n events
SafeActsIn(ev, n) == Cardinality({i \in 1..n : ev[i] \notin Queries})

\* number of safe_act calls up to and including the event named e
SafeActsTo(ev, e) == SafeActsIn(ev, CHOOSE i \in 1..Len(ev) : ev[i] = e)

SearchCalls == [n \in 0..Len(SearchEvents) |-> SafeActsIn(SearchEvents, n)]
BranchCalls == [n \in 0..Len(BranchEvents) |-> SafeActsIn(BranchEvents, n)]
BankSelectCall == SafeActsTo(BranchEvents, "bank_select")
ScopeSelectCall == SafeActsTo(BranchEvents, "scope_select")

\* One run of a handler body on the current counter.  calls[n]: safe_act calls
\* among the first n driver calls; f: the driver call that raises or whose
\* verification fails (0: none does).  made: safe_act calls made; returned:
\* those whose nova.act returned; loop: safe_act raised InfiniteLoopException.
Run(calls, last, f) ==
    LET reach == calls[IF f = 0 THEN last ELSE f]
        good == IF f = 0 THEN reach ELSE calls[f - 1]
    IN  IF Exceeded(count + reach, max_actions)
           THEN LET first == CHOOSE j \in 1..reach :
                                /\ Exceeded(count + j, max_actions)
                                /\ ~Exceeded(count + j - 1, max_actions)
                IN  [made |-> first, returned |-> first - 1, loop |-> TRUE]
           ELSE [made |-> reach, returned |-> good, loop |-> FALSE]

\* what execute_with_retry sees of a run: InfiniteLoopException and the
\* RetryException with_retry wraps it in carry no network keyword
RunOutcome(r, f, k) == IF r.loop THEN "other" ELSE IF f = 0 THEN "ok" ELSE k

\* the handler-side state as it is, and with fields replaced
Here ==
    [count |-> count, dispatched |-> dispatched, last_act |-> last_act,
     role_field |-> role_field, bank_user_field |-> bank_user_field,
     scope_field |-> scope_field, save_issued |-> save_issued, applied |-> applied,
     save_clicks |-> save_clicks, failed_step |-> failed_step, call |-> "handler"]

\* the counter after run r
Counted(r) ==
    [Here EXCEPT !.count = count + r.made,
                 !.dispatched = dispatched + r.returned
                                  + (IF r.loop \/ r.made = r.returned THEN 0 ELSE 1),
                 !.last_act = IF r.made = 0 THEN last_act
                              ELSE IF r.loop THEN "InfiniteLoop"
                              ELSE IF r.made = r.returned THEN "returned"
                              ELSE "driver_error"]

\* every call is rejected while the breaker is open
RejectsWhileOpen == is_open

\* NetworkCircuitBreaker.call run to completion by the only caller:
\* lines 246-257, the call is rejected
Rejects == is_open /\ StillCooling(Elapsed(now, last_failure_time))

BreakerNow ==
    [failure_count |-> failure_count, last_failure_time |-> last_failure_time,
     is_open |-> is_open]

\* lines 260-286, the breaker after the wrapped function ended with o
BreakerAfter(o) ==
    CASE o = "ok" ->
            [failure_count |-> CountAfterSuccess(failure_count),
             last_failure_time |-> last_failure_time, is_open |-> FALSE]
      [] o = "net" ->
            [failure_count |-> failure_count + 1, last_failure_time |-> now,
             is_open |-> ReachedThreshold(failure_count + 1)]
      [] o = "other" ->
            [failure_count |-> failure_count,
             last_failure_time |-> last_failure_time, is_open |-> FALSE]

\* handler_wrapper.py lines 69-74: delay before the next attempt
Delay(a, net) == Min(IF net THEN 5 * (2 ^ a) ELSE 2 * (a + 1), 120)

\* a retry is granted once more than the loop has attempts for
CanRetryOnceMore(a, m) == a < m

\* handler_wrapper.py line 67: `if attempt < max_retries - 1`
CanRetry(a, m) == a < m - 1

\* The clock d seconds later, as line 252 can read it: only while the breaker
\* is open, only through time.time() - last_failure_time, and without telling
\* apart elapsed times of cooldown_seconds or more.  The epoch is moved to the
\* last failure.
ClockAfter(t, lft, open, d) ==
    IF lft = NoTime THEN <<0, NoTime>>
    ELSE IF ~open THEN <<0, 0>>
    ELSE <<Min(t + d - lft, cooldown_seconds), 0>>

\* the role step and the branch step exchanged
NextStepSwapped(s) ==
    CASE s = "login" -> "search"
      [] s = "search" -> IF branch_hierarchy # None THEN "branch"
                         ELSE IF new_role # None THEN "role" ELSE "save"
      [] s = "branch" -> IF new_role # None THEN "role" ELSE "save"
      [] s = "role" -> "save"
      [] s = "save" -> "done"

\* csp_admin.py lines 75-121: the step that follows s
NextStep(s) ==
    CASE s = "login" -> "search"
      [] s = "search" -> IF new_role # None THEN "role"
                         ELSE IF branch_hierarchy # None THEN "branch" ELSE "save"
      [] s = "role" -> IF branch_hierarchy # None THEN "branch" ELSE "save"
      [] s = "branch" -> "save"
      [] s = "save" -> "done"

\* csp_admin.py line 43: `result = {'success': False}`
ResultKeys == {"success"}

\* lines 56, 68, 85, 98, 113: `result['failed_steps'].append(<step>)`; without
\* the key the subscript raises KeyError, which line 125 catches
RecordFailure(keys, s) == IF "failed_steps" \in keys THEN s ELSE "none"

\* execute_with_retry lines 57-85 for one attempt that ended with o, and
\* process_user_simple's use of the returned flag: the next step, the same step
\* after the delay, or the request given up (result['failed_steps'] raises
\* KeyError, caught at line 125).  b: breaker fields, h: handler-side state.
Settle(o, b, h) ==
    LET retry == o # "ok" /\ CanRetry(attempt, max_retries[step])
        abort == o # "ok" /\ ~retry
        nxt == IF o = "ok" THEN NextStep(step) ELSE IF retry THEN step ELSE "idle"
        clk == ClockAfter(now, b.last_failure_time, b.is_open,
                          IF retry THEN Delay(attempt, o = "net") ELSE 0)
        \* the handler of the next step is constructed with its counter; the
        \* handler of a step that is over is not used again
        fresh == o = "ok" /\ nxt \in DOMAIN HandlerCeiling
        over == o = "ok" /\ ~fresh
    IN  /\ failure_count' = b.failure_count
        /\ is_open' = b.is_open
        /\ now' = clk[1]
        /\ last_failure_time' = clk[2]
        /\ step' = IF nxt = "done" THEN "idle" ELSE nxt
        /\ attempt' = IF retry THEN attempt + 1 ELSE 0
        /\ status' = IF abort THEN "failed"
                     ELSE IF nxt = "done" THEN "success" ELSE status
        /\ branch_step' = IF step # "branch" THEN branch_step
                          ELSE IF o = "ok" THEN "ok"
                          ELSE IF abort THEN "failed" ELSE branch_step
        /\ count' = IF fresh \/ over THEN 0 ELSE h.count
        /\ dispatched' = IF fresh \/ over THEN 0 ELSE h.dispatched
        /\ last_act' = IF fresh \/ over THEN "none" ELSE h.last_act
        /\ max_actions' = IF fresh THEN HandlerCeiling[nxt]
                           ELSE IF over THEN 0 ELSE max_actions
        /\ role_field' = h.role_field
        /\ bank_user_field' = h.bank_user_field
        /\ scope_field' = h.scope_field
        /\ save_issued' = h.save_issued
        /\ applied' = h.applied
        /\ save_clicks' = h.save_clicks
        /\ failed_step' = IF abort THEN step ELSE h.failed_step
        /\ reported_step' = IF abort THEN RecordFailure(ResultKeys, step)
                             ELSE reported_step
        /\ last_call' = h.call
        /\ prev_call' = last_call
        /\ delay' = IF retry THEN Delay(attempt, o = "net") ELSE 0
        /\ UNCHANGED <<psRequest, cpc, cbLocals, cbLast, cbHist, xVars>>

\* the breaker raised "Circuit breaker is OPEN. Network appears down...": the
\* handler is not invoked, and is_network_error finds "network" in the message
Rejected == Settle("net", BreakerNow, [Here EXCEPT !.call = "rejected"])

\* process_single_user / main: the next request of the batch is taken up
BeginRequest ==
    /\ step = "idle"
    /\ failure_count < MaxFailureCount
    /\ step' = "login"
    /\ attempt' = 0
    /\ status' = "running"
    /\ branch_step' = "none"
    /\ save_issued' = FALSE
    /\ applied' = FALSE
    /\ save_clicks' = 0
    /\ failed_step' = "none"
    /\ reported_step' = "none"
    /\ last_call' = "none"
    /\ prev_call' = "none"
    /\ delay' = 0
    /\ new_role' \in NewRoles
    /\ branch_hierarchy' \in BranchRequests
    /\ role_field' \in IF new_role' = None THEN {"Teller"} ELSE Roles
    /\ bank_user_field' \in IF branch_hierarchy' \in Leaves THEN Leaves ELSE {"HN01"}
    /\ scope_field' \in IF branch_hierarchy' \in Leaves THEN Leaves ELSE {"HN01"}
    /\ already' = /\ new_role' # None \/ branch_hierarchy' # None
                  /\ new_role' # None => role_field' = new_role'
                  /\ branch_hierarchy' # None =>
                        /\ bank_user_field' = branch_hierarchy'
                        /\ scope_field' = branch_hierarchy'
    /\ count' = 0
    /\ max_actions' = 0
    /\ dispatched' = 0
    /\ last_act' = "none"
    /\ \E gap \in {0, cooldown_seconds} :
          LET clk == ClockAfter(now, last_failure_time, is_open, gap)
          IN  now' = clk[1] /\ last_failure_time' = clk[2]
    /\ UNCHANGED <<failure_count, is_open, cpc, cbLocals, cbLast, cbHist, xVars>>

\* CSPLoginHandler.login under with_retry(max_retries=3)
LoginAttempt ==
    /\ step = "login"
    /\ IF Rejects THEN Rejected
       ELSE \E o \in Outcomes : Settle(o, BreakerAfter(o), Here)

\* CSPUserSearchHandler.search_and_open_edit under with_retry(max_retries=1):
\* the body runs once per call
SearchAttempt ==
    /\ step = "search"
    /\ IF Rejects THEN Rejected
       ELSE \E f \in 0..Len(SearchEvents), k \in {"net", "other"} :
               LET r == Run(SearchCalls, Len(SearchEvents), f)
                   o == RunOutcome(r, f, k)
               IN  /\ f = 0 => k = "other"
                   /\ Settle(o, BreakerAfter(o), Counted(r))

\* CSPRoleHandler.change_role: Roles tab, query of the Role field (return True
\* if it already shows new_role), else select the role and query the field again
RoleAttempt ==
    /\ step = "role"
    /\ IF Rejects THEN Rejected
       ELSE \E o \in Outcomes, took \in BOOLEAN :
               LET pre == role_field = new_role
               IN  /\ pre => ~took
                   /\ (o = "ok" /\ ~pre) => took
                   /\ Settle(o, BreakerAfter(o),
                             [Here EXCEPT
                                 !.role_field = IF took THEN new_role ELSE role_field,
                                 !.applied = applied \/ took])

\* CSPBranchHandler.change_branch_hierarchical under with_retry(max_retries=1):
\* the body runs once per call.  A Select click that returned may or may not have
\* put the leaf into its field; the Scope query answers what the field shows.
BranchAttempt ==
    /\ step = "branch"
    /\ IF Rejects THEN Rejected
       ELSE IF branch_hierarchy = Short
       \* lines 27-31: `return False` before any driver call; the breaker and
       \* execute_with_retry (lines 55-59) take a call that returned for a success
       THEN Settle("ok", BreakerAfter("ok"), [Here EXCEPT !.failed_step = "branch"])
       ELSE \E f \in 0..Len(BranchEvents), k \in {"net", "other"},
               bank_took \in BOOLEAN, scope_took \in BOOLEAN :
               LET r == Run(BranchCalls, Len(BranchEvents), f)
                   o == RunOutcome(r, f, k)
                   bank_sel == r.returned >= BankSelectCall
                   scope_sel == r.returned >= ScopeSelectCall
                   scope_new == IF scope_sel /\ scope_took
                                   THEN branch_hierarchy ELSE scope_field
               IN  /\ f = 0 => k = "other"
                   /\ bank_took => bank_sel
                   /\ scope_took => scope_sel
                   /\ o = "ok" => scope_new = branch_hierarchy
                   /\ Settle(o, BreakerAfter(o),
                             [Counted(r) EXCEPT
                                 !.bank_user_field =
                                     IF bank_took THEN branch_hierarchy
                                                  ELSE bank_user_field,
                                 !.scope_field = scope_new,
                                 !.applied = applied \/ bank_sel])

\* with_retry(max_retries=2) of CSPSaveHandler.save_changes
SaveBodies == 2

\* CSPSaveHandler.save_changes under with_retry(max_retries=2): the body
\* issues the Save click (line 28), which the driver carries out or not, then
\* waits for the loading to complete and raises if it does not (lines 32-37);
\* n: the clicks carried out in the one or two runs of the body
SaveAttempt ==
    /\ step = "save"
    /\ IF Rejects THEN Rejected
       ELSE \E o \in Outcomes, n \in 0..SaveBodies :
               /\ o = "ok" => n >= 1
               /\ Settle(o, BreakerAfter(o),
                         [Here EXCEPT !.save_issued = TRUE,
                                      !.save_clicks = save_clicks + n])

NextSimple ==
    \/ BeginRequest
    \/ LoginAttempt
    \/ SearchAttempt
    \/ RoleAttempt
    \/ BranchAttempt
    \/ SaveAttempt

SimpleInit == BreakerIdle /\ CounterIdle /\ PipelineIdle /\ RunnersIdle

SpecSimple == SimpleInit /\ [][NextSimple]_vars

\* C26: every call of a step is one of its at most max_retries attempts; a
\* call is rejected exactly when the breaker is open and the cooldown has not
\* elapsed, and then it uses up the attempt: the step is called again as the
\* next attempt, or is given up if that was the last one.  A call made on an
\* open breaker after the cooldown reaches the handler.
C26_RejectionIsAttempt ==
    [][step # "idle" =>
          /\ attempt + 1 <= max_retries[step]
          /\ last_call' = "rejected" <=> Rejects
          /\ (is_open /\ ~StillCooling(Elapsed(now, last_failure_time)))
                => last_call' = "handler"
          /\ last_call' = "rejected" =>
                IF attempt + 1 < max_retries[step]
                   THEN step' = step /\ attempt' = attempt + 1
                   ELSE step' = "idle" /\ status' = "failed" /\ failed_step' = step]_vars

\* a call of a step was rejected and the next attempt of the same step, made
\* after the cooldown, reached the handler
C26_Witness ==
    /\ prev_call = "rejected"
    /\ last_call = "handler"
    /\ step \in {"login", "search"}
    /\ attempt >= 1

\* the first delays of execute_with_retry: 2 s after an error that is not a
\* network error, 5 s after a network error (handler_wrapper.py lines 70-72)
BaseDelays == {2, 5}

\* handler_wrapper.py line 74: `delay = min(delay, 120)`
DelayCap == 120

\* C27: the delay before attempt k+1 of a step is a first delay multiplied by
\* 2^(k-1), and at most the cap (attempt is k after k failed attempts).
C27_ExponentialDelay ==
    (step # "idle" /\ attempt >= 1) =>
        /\ delay <= DelayCap
        /\ \E b \in BaseDelays : delay = Min(b * (2 ^ (attempt - 1)), DelayCap)

\* C32: the branch step is taken for completed only if the last run of its
\* handler reported success: a handler that returned False makes the step fail.
C32_FalseFailsStep ==
    branch_step = "ok" => failed_step # "branch"

\* C7: once safe_act has raised InfiniteLoopException in a step, the step's
\* handler is not invoked again (the counter stays one past its ceiling) and the
\* request is given up: it ends failed, with no later step and no Save.
C7_LoopNotRetried ==
    last_act = "InfiniteLoop"
        => /\ count = max_actions + 1
           /\ step = "idle"
           /\ status = "failed"
           /\ branch_step = "failed"
           /\ ~save_issued

\* the branch step ran into its ceiling and the request was given up
C7_Witness ==
    /\ last_act = "InfiniteLoop"
    /\ count > max_actions
    /\ step = "idle"
    /\ status = "failed"

\* C8: a request with neither new_role nor branch_hierarchy never has the Save
\* click issued to the driver.
C8_NoSaveWithoutRequest ==
    (status # "none" /\ new_role = None /\ branch_hierarchy = None)
        => ~save_issued

\* C9: a request whose requested fields already show the requested values has
\* no change applied and no Save click issued.
C9_NoSaveWhenMatching == already => (~applied /\ ~save_issued)

\* C10: the branch step reports success only with both the Bank user field and
\* the Scope field showing the requested leaf.
C10_BothFieldsOrFailure ==
    branch_step = "ok"
        => /\ bank_user_field = branch_hierarchy
           /\ scope_field = branch_hierarchy

(***************************************************************************)
(* CSPAdminRoleAndBranchChanger.run_batch                                  *)
(***************************************************************************)
\* lines 1120-1149: the parameters and the loaded configuration; the argument
\* parallel_workers (0 for None) is overwritten with None at line 1131 and
\* nothing after that reads it
BatchInit ==
    /\ per_user_session \in BOOLEAN
    /\ start_retries \in 0..MaxStartRetries
    /\ total_users \in 0..MaxUsers
    /\ parallel_workers \in 0..MaxPoolWorkers
    /\ rpc = "loop"
    /\ user = 0
    /\ start_attempt = 0
    /\ session = "none"
    /\ pending = "none"
    /\ results = [u \in 1..MaxUsers |-> 0]
    /\ has_success = [u \in 1..MaxUsers |-> FALSE]
    /\ has_failed = [u \in 1..MaxUsers |-> FALSE]
    /\ success_count = 0
    /\ returned = "none"
    /\ report = <<>>
    /\ BreakerIdle
    /\ CounterIdle
    /\ PipelineIdle
    /\ PoolIdle
    /\ LoginsIdle
    /\ MainIdle
    /\ RetryIdle
    /\ StepsIdle

rbOthers == <<cbVars, acVars, psVars, plVars, lgVars, mnVars, wrVars, yVars>>

\* the same without the session starts
rbButStarts == <<cbVars, acVars, psVars, plVars, lgVars, mnVars, wrVars, zVars, nvVars,
                 gVars>>

\* self.results.append(RoleChangeResult(... status ...)) for the current request
AppendResult(ok) ==
    /\ results' = [results EXCEPT ![user] = @ + 1]
    /\ has_success' = [has_success EXCEPT ![user] = @ \/ ok]
    /\ has_failed' = [has_failed EXCEPT ![user] = @ \/ ~ok]
    /\ UNCHANGED report

\* line 1160, `for user_request in config.users`, and line 1162,
\* `for attempt in range(1, start_retries + 1)`: empty for start_retries < 1
NextUser ==
    /\ rpc = "loop"
    /\ per_user_session
    /\ IF user < total_users
          THEN /\ user' = user + 1
               /\ start_attempt' = 1
               /\ rpc' = IF start_retries >= 1 THEN "start" ELSE "loop"
          ELSE /\ rpc' = "summary"
               /\ UNCHANGED <<user, start_attempt>>
    /\ UNCHANGED <<rbParams, session, pending, rbStore, returned, rbOthers>>

\* a start that may follow every failed start
MoreStartsAlways(a, n) == a <= n

\* line 1198, `if attempt < start_retries`: sleep and start again
MoreStarts(a, n) == a < n

\* line 1165, entering `with self.create_nova_act_instance(...) as nova`, and
\* the handlers of lines 1195-1219 when the session does not start
StartSession(o) ==
    /\ rpc = "start"
    /\ CASE o = "ok" ->
              /\ session' = "open"
              /\ rpc' = "body"
              /\ UNCHANGED <<start_attempt, rbStore>>
         [] o = "StartFailed" ->
              /\ UNCHANGED session
              /\ IF MoreStarts(start_attempt, start_retries)
                    THEN /\ start_attempt' = start_attempt + 1
                         /\ UNCHANGED <<rpc, rbStore>>
                    ELSE /\ AppendResult(FALSE)
                         /\ rpc' = "loop"
                         /\ UNCHANGED <<start_attempt, success_count>>
         [] o = "error" ->
              /\ AppendResult(FALSE)
              /\ rpc' = "loop"
              /\ UNCHANGED <<session, start_attempt, success_count>>
    /\ start_failed' = IF o = "StartFailed"
                          THEN [start_failed EXCEPT ![user] = @ + 1]
                          ELSE start_failed
    /\ start_timeouts' = IF o = "StartFailed" /\ ~MoreStarts(start_attempt, start_retries)
                            THEN [start_timeouts EXCEPT ![user] = @ + 1]
                            ELSE start_timeouts
    /\ UNCHANGED <<rbParams, user, pending, returned, rbButStarts>>

\* lines 1166-1194, the body of the with block: login, navigation and
\* process_single_user (which appends one result on each of its paths and
\* catches every Exception, lines 916-1118); login and navigation may raise
SessionBody(o) ==
    /\ rpc = "body"
    /\ per_user_session
    /\ rpc' = "exit"
    /\ CASE o \in {"login_false", "nav_false", "user_failed"} ->
              /\ AppendResult(FALSE)
              /\ pending' = "break"
              /\ UNCHANGED success_count
         [] o = "user_ok" ->
              /\ AppendResult(TRUE)
              /\ success_count' = success_count + 1
              /\ pending' = "break"
         [] o = "raised" ->
              /\ pending' = "exc"
              /\ UNCHANGED rbStore
    /\ UNCHANGED <<rbParams, user, start_attempt, session, returned, rbOthers>>

\* a session that is still in use after a stop that raised
AfterExitInUse(o) == IF o = "ok" THEN "closed" ELSE "open"

\* the session after NovaAct.__exit__: stopped, or its stop was issued and raised
AfterExit(o) == IF o = "ok" THEN "closed" ELSE "stop_failed"

\* leaving the with block: NovaAct.__exit__ stops the session, and may raise;
\* an exception that leaves the block reaches `except Exception` (line 1209)
ExitSession(o) ==
    /\ rpc = "exit"
    /\ per_user_session
    /\ session' = AfterExit(o)
    /\ IF o = "raised" \/ pending = "exc"
          THEN AppendResult(FALSE) /\ UNCHANGED success_count
          ELSE UNCHANGED rbStore
    /\ pending' = "none"
    /\ rpc' = "loop"
    /\ UNCHANGED <<rbParams, user, start_attempt, returned, rbOthers>>

\* line 1223: the one session of shared-session mode; an error raised here is
\* outside every try block of run_batch
SharedStart(o) ==
    /\ rpc = "loop"
    /\ ~per_user_session
    /\ IF o = "ok"
          THEN /\ session' = "open"
               /\ rpc' = "shared_login"
               /\ UNCHANGED returned
          ELSE /\ returned' = "raised"
               /\ rpc' = "done"
               /\ UNCHANGED session
    /\ UNCHANGED <<rbParams, user, start_attempt, pending, rbStore, rbOthers>>

\* lines 235-252, save_results: the file holds self.results as it is now
SaveResults == report' = <<results>>

\* lines 1225-1232 and 1238-1240: initial login and navigation; a login or
\* navigation that returned False saves the results and returns
SharedLogin(o) ==
    /\ rpc = "shared_login"
    /\ CASE o = "ok" -> rpc' = "shared_user" /\ UNCHANGED <<pending, report>>
         [] o = "false" -> rpc' = "shared_exit" /\ pending' = "return_false"
                                               /\ SaveResults
         [] o = "raised" -> rpc' = "shared_exit" /\ pending' = "summary"
                                                /\ UNCHANGED report
    /\ UNCHANGED <<rbParams, user, start_attempt, session, results, has_success,
                   has_failed, success_count, returned, rbOthers>>

\* lines 1233-1237: the requests one after another in the shared session
SharedUser(ok) ==
    /\ rpc = "shared_user"
    /\ IF user < total_users
          THEN /\ user' = user + 1
               /\ results' = [results EXCEPT ![user + 1] = @ + 1]
               /\ has_success' = [has_success EXCEPT ![user + 1] = @ \/ ok]
               /\ has_failed' = [has_failed EXCEPT ![user + 1] = @ \/ ~ok]
               /\ UNCHANGED report
               /\ success_count' = IF ok THEN success_count + 1 ELSE success_count
               /\ UNCHANGED <<rpc, pending>>
          ELSE /\ ok
               /\ rpc' = "shared_exit"
               /\ pending' = "summary"
               /\ UNCHANGED <<user, rbStore>>
    /\ UNCHANGED <<rbParams, start_attempt, session, returned, rbOthers>>

\* leaving the with block of line 1223
SharedExit(o) ==
    /\ rpc = "shared_exit"
    /\ session' = AfterExit(o)
    /\ pending' = "none"
    /\ CASE o = "raised" -> returned' = "raised" /\ rpc' = "done"
         [] o = "ok" /\ pending = "return_false" -> returned' = "False" /\ rpc' = "done"
         [] o = "ok" /\ pending = "summary" -> rpc' = "summary" /\ UNCHANGED returned
    /\ UNCHANGED <<rbParams, user, start_attempt, rbStore, rbOthers>>

\* lines 1242-1252: line 1243 divides by total_users; save_results at line
\* 1251
Summary ==
    /\ rpc = "summary"
    /\ rpc' = "done"
    /\ returned' = IF total_users = 0 THEN "raised"
                   ELSE IF success_count = total_users THEN "True" ELSE "False"
    /\ IF total_users = 0 THEN UNCHANGED report ELSE SaveResults
    /\ UNCHANGED <<rbParams, user, start_attempt, session, pending, results,
                   has_success, has_failed, success_count, rbOthers>>

\* a KeyboardInterrupt raised while run_batch works on the requests: it is no
\* Exception, so the handlers of lines 1209 and 1238 let it pass; the with
\* block of line 1165 or 1223 stops the session on the way out, and
\* run_actual_csp_automation (console_app.py lines 251-252) prints a line
Interrupt(o) ==
    /\ rpc \in {"start", "body", "exit", "shared_login", "shared_user", "shared_exit"}
    /\ session # "open" => o = "ok"
    /\ session' = IF session = "open" THEN AfterExit(o) ELSE session
    /\ pending' = "none"
    /\ rpc' = "done"
    /\ returned' = IF o = "ok" THEN "KeyboardInterrupt" ELSE "raised"
    /\ UNCHANGED <<rbParams, user, start_attempt, rbStore, rbOthers>>

NextBatch ==
    \/ NextUser
    \/ \E o \in {"ok", "StartFailed", "error"} : StartSession(o)
    \/ \E o \in {"login_false", "nav_false", "user_failed", "user_ok", "raised"} :
          SessionBody(o)
    \/ \E o \in {"ok", "raised"} : ExitSession(o)
    \/ \E o \in {"ok", "raised"} : SharedStart(o)
    \/ \E o \in {"ok", "false", "raised"} : SharedLogin(o)
    \/ \E ok \in BOOLEAN : SharedUser(ok)
    \/ \E o \in {"ok", "raised"} : SharedExit(o)
    \/ Summary
    \/ \E o \in {"ok", "raised"} : Interrupt(o)

SpecBatch == BatchInit /\ [][NextBatch]_vars

\* C11: when run_batch has ended, every request of the input has exactly one
\* entry in self.results.
C11_OneResultEach ==
    returned # "none" => \A u \in 1..total_users : results[u] = 1

\* C31: a run of run_batch ended by a KeyboardInterrupt has its session
\* stopped, and the results collected before the interrupt are in the report.
C31_InterruptSavesResults ==
    returned = "KeyboardInterrupt" =>
        /\ session # "open"
        /\ (\E u \in 1..MaxUsers : results[u] > 0)
              => (Len(report) = 1 /\ report[1] = results)

\* C24: with a session per request a start that raised StartFailed is followed
\* by another start while fewer than start_retries were made, a request has at
\* most start_retries starts, and a request whose starts all raised StartFailed
\* has exactly one result, the one with 'failed - start timeout'.
C24_StartRetried ==
    per_user_session =>
        \A u \in 1..MaxUsers :
            /\ start_failed[u] <= start_retries
            /\ (rpc = "start" /\ u = user) => start_attempt = start_failed[u] + 1
            /\ start_timeouts[u] =
                  (IF start_retries >= 1 /\ start_failed[u] = start_retries THEN 1 ELSE 0)
            /\ start_timeouts[u] = 1 => results[u] = 1

\* the starts of the first request all failed and the second request was
\* processed after it
C24_Witness ==
    /\ per_user_session
    /\ start_retries >= 2
    /\ user = 2
    /\ start_timeouts[1] = 1
    /\ start_failed[1] = start_retries
    /\ results[2] = 1
    /\ has_success[2]

(***************************************************************************)
(* csp_admin_parallel: main and process_single_user_parallel               *)
(***************************************************************************)
\* lines 210-287: the arguments, the environment and the loaded requests.
\* A request is described by whether its user exists, whether every handler
\* it runs succeeds, and whether it asks for a role or a branch.
PoolInit ==
    /\ max_workers \in 0..MaxPoolWorkers
    /\ api_key \in BOOLEAN
    /\ submitted \in 0..MaxUsers
    /\ found \in [1..MaxUsers -> BOOLEAN]
    /\ steps_ok \in [1..MaxUsers -> BOOLEAN]
    /\ wants_change \in [1..MaxUsers -> BOOLEAN]
    /\ \A u \in 1..MaxUsers :
          u > submitted => found[u] /\ steps_ok[u] /\ ~wants_change[u]
    /\ future = [u \in 1..MaxUsers |-> "none"]
    /\ task_result = [u \in 1..MaxUsers |-> "none"]
    /\ entries = [u \in 1..MaxUsers |-> 0]
    /\ entry_status = [u \in 1..MaxUsers |-> "none"]
    /\ pool_returned = "none"
    /\ BreakerIdle
    /\ CounterIdle
    /\ PipelineIdle
    /\ BatchIdle
    /\ LoginsIdle
    /\ MainIdle
    /\ RetryIdle
    /\ StepsIdle

plOthers == <<cbVars, acVars, psVars, rbVars, lgVars, mnVars, wrVars, yVars>>

\* the same without the sessions
plButNovas == <<cbVars, acVars, psVars, rbVars, lgVars, mnVars, wrVars, zVars, shVars,
                gVars>>

\* process_single_user_parallel, lines 34-207: what one call ends with.
\* Line 69 raises before the try block; a failed step raises inside it
\* (lines 110-123, 138-140, 153-155, 172-174); after a role or branch step
\* that succeeded, lines 141 and 156 read has_changes, an attribute that
\* neither CSPRoleHandler nor CSPBranchHandler has, and the AttributeError is
\* caught at line 194 like every other Exception.
TaskResult(key, f, ok, wants) ==
    IF ~key THEN "raised"
    ELSE IF ~f THEN "Failed"
    ELSE IF ~ok THEN "Failed"
    ELSE IF wants THEN "Failed"
    ELSE "Success"

Running == {u \in 1..MaxUsers : future[u] = "running"}
Queued == {u \in 1..MaxUsers : future[u] = "queued"}

\* lines 290-301: ThreadPoolExecutor(max_workers) and the submissions
Submit ==
    /\ pool_returned = "none"
    /\ \A u \in 1..MaxUsers : future[u] = "none"
    /\ entries = [u \in 1..MaxUsers |-> 0]
    /\ IF max_workers <= 0
          THEN pool_returned' = "raised" /\ UNCHANGED future
          ELSE /\ submitted > 0
               /\ future' = [u \in 1..MaxUsers |->
                                IF u <= submitted THEN "queued" ELSE "none"]
               /\ UNCHANGED pool_returned
    /\ UNCHANGED <<plParams, task_result, entries, entry_status, plOthers>>

\* a session taken from the sessions that exist already
PooledSession(made) == IF made = 0 THEN 1 ELSE made

\* lines 88-94, `with NovaAct(...) as nova`: a new object for each call
NewSession(made) == made + 1

\* a free worker thread takes the oldest queued call and runs it up to the
\* with statement of line 88 (line 69 raises before it without an API key);
\* the handlers of lines 101-165 are constructed on the local nova
TaskStart(u) ==
    /\ pool_returned = "none"
    /\ u \in Queued
    /\ \A v \in Queued : u <= v
    /\ Cardinality(Running) < max_workers
    /\ future' = [future EXCEPT ![u] = "running"]
    /\ IF api_key
          THEN LET n == NewSession(sessions_made)
               IN  /\ nova_of' = [nova_of EXCEPT ![u] = n]
                   /\ sessions_made' = IF n > sessions_made THEN n ELSE sessions_made
                   /\ users_of' = [users_of EXCEPT ![n] = @ \cup {u}]
          ELSE UNCHANGED nvVars
    /\ UNCHANGED <<plParams, task_result, entries, entry_status, pool_returned,
                   plButNovas>>

\* the call returns or raises, which leaves the with block and ends the local
\* nova; the future is done
TaskDone(u) ==
    /\ pool_returned = "none"
    /\ u \in Running
    /\ future' = [future EXCEPT ![u] = "done"]
    /\ task_result' = [task_result EXCEPT ![u] =
                          TaskResult(api_key, found[u], steps_ok[u], wants_change[u])]
    /\ nova_of' = [nova_of EXCEPT ![u] = 0]
    /\ UNCHANGED <<sessions_made, users_of>>
    /\ UNCHANGED <<plParams, entries, entry_status, pool_returned, plButNovas>>

\* lines 303-308: as_completed yields a finished future, future.result()
\* returns the UserProcessResult or re-raises what the call raised
Collect(u) ==
    /\ pool_returned = "none"
    /\ future[u] = "done"
    /\ future' = [future EXCEPT ![u] = "collected"]
    /\ IF task_result[u] = "raised"
          THEN /\ pool_returned' = "raised"
               /\ UNCHANGED <<entries, entry_status>>
          ELSE /\ entries' = [entries EXCEPT ![u] = @ + 1]
               /\ entry_status' = [entry_status EXCEPT ![u] = task_result[u]]
               /\ UNCHANGED pool_returned
    /\ UNCHANGED <<plParams, task_result, plOthers>>

\* lines 310-357: `successful` is assigned only under `if results:` (line 315)
\* and read at lines 353 and 357
PoolSummary ==
    /\ pool_returned = "none"
    /\ max_workers > 0
    /\ \A u \in 1..submitted : future[u] = "collected"
    /\ pool_returned' =
          IF \A u \in 1..MaxUsers : entries[u] = 0 THEN "raised"
          ELSE IF \A u \in 1..MaxUsers : entries[u] > 0 => entry_status[u] = "Success"
                  THEN "True" ELSE "False"
    /\ UNCHANGED <<plParams, future, task_result, entries, entry_status, plOthers>>

NextPool ==
    \/ Submit
    \/ \E u \in 1..MaxUsers : TaskStart(u)
    \/ \E u \in 1..MaxUsers : TaskDone(u)
    \/ \E u \in 1..MaxUsers : Collect(u)
    \/ PoolSummary

SpecPool == PoolInit /\ [][NextPool]_vars

\* C12: when the parallel run, given an API key and at least one worker, has
\* ended, every submitted request has exactly one collected entry; the entry
\* of a request whose user is not found is a failure and the entry of a
\* request whose steps all succeed is a success.
C12_OneEntryFoundSucceeds ==
    (pool_returned # "none" /\ api_key /\ max_workers >= 1) =>
        \A u \in 1..submitted :
            /\ entries[u] = 1
            /\ ~found[u] => entry_status[u] = "Failed"
            /\ (found[u] /\ steps_ok[u]) => entry_status[u] = "Success"

\* C33: in the parallel run a request that asks for a role or a branch, whose
\* user is found and whose handlers all succeed, has the status 'Success'.
C33_ChangeSucceeds ==
    \A u \in 1..MaxUsers :
        (/\ u <= submitted
         /\ entries[u] = 1
         /\ found[u]
         /\ steps_ok[u]
         /\ wants_change[u])
           => entry_status[u] = "Success"

\* C28: in the parallel run every call that got as far as its session has a
\* session of its own: no two calls hold the same session, a session has been
\* acted on by one call only, one session was constructed per started call, and
\* a worker changes nothing but the future, the result and the session of its
\* own call; the list of results is written by the collecting thread only.
C28_SessionPerCall ==
    /\ [](/\ \A u, v \in 1..MaxUsers :
                (u # v /\ nova_of[u] # 0) => nova_of[u] # nova_of[v]
          /\ \A n \in 1..MaxUsers : Cardinality(users_of[n]) <= 1
          /\ api_key =>
                sessions_made = Cardinality({u \in 1..MaxUsers :
                                    future[u] \in {"running", "done", "collected"}})
          /\ \A u \in 1..MaxUsers : nova_of[u] # 0 => future[u] = "running")
    /\ [][\A u \in 1..MaxUsers :
            (future[u] \in {"queued", "running"} /\ future'[u] # future[u]) =>
                /\ entries' = entries
                /\ entry_status' = entry_status
                /\ \A v \in 1..MaxUsers \ {u} :
                      /\ future'[v] = future[v]
                      /\ task_result'[v] = task_result[v]
                      /\ nova_of'[v] = nova_of[v]]_vars

\* two calls run at the same time, each in its own session
C28_Witness ==
    /\ Cardinality(Running) = 2
    /\ nova_of[1] # 0
    /\ nova_of[2] # 0
    /\ nova_of[1] # nova_of[2]
    /\ users_of[nova_of[1]] = {1}
    /\ users_of[nova_of[2]] = {2}

(***************************************************************************)
(* The Login step of consecutive requests: in process_user_simple run by   *)
(* execute_with_retry through the module-level circuit_breaker, in the     *)
(* legacy run_batch called directly                                        *)
(***************************************************************************)
LoginsInit ==
    /\ BreakerIdle
    /\ CounterIdle
    /\ PipelineIdle
    /\ BatchIdle
    /\ PoolIdle
    /\ MainIdle
    /\ RetryIdle
    /\ StepsIdle
    /\ legacy \in BOOLEAN
    /\ net_logins = 0
    /\ prior_net = 0
    /\ only_net = TRUE
    /\ first_call = "none"

lgPipeline == <<psRequest, psFields, save_issued, applied, branch_step,
                save_clicks, failed_step, reported_step, last_call, prev_call, delay>>
lgOthers == <<acVars, lgPipeline, rbVars, plVars, mnVars, wrVars, yVars>>

\* csp_admin.py main / process_single_user: the next request is taken up, any
\* time after the previous one (a new driver session is started, the operator
\* is asked whether to continue)
BeginLogin ==
    /\ step = "idle"
    /\ net_logins <= failure_threshold
    /\ step' = "login"
    /\ attempt' = 0
    /\ status' = "running"
    /\ prior_net' = net_logins
    /\ only_net' = TRUE
    /\ first_call' = "none"
    /\ \E gap \in {0, cooldown_seconds} :
          LET clk == ClockAfter(now, last_failure_time, is_open, gap)
          IN  now' = clk[1] /\ last_failure_time' = clk[2]
    /\ UNCHANGED <<failure_count, is_open, cpc, cbLocals, cbLast, cbHist,
                   legacy, net_logins, lgOthers>>

\* csp_admin.py lines 45-57: one attempt of the login step, ended with o by
\* the breaker (rejected) or by CSPLoginHandler.login; login given up ends the
\* request, login done leads on to the steps that follow
LoginSettle(o, b, called) ==
    LET retry == o # "ok" /\ CanRetry(attempt, max_retries.login)
        clk == ClockAfter(now, b.last_failure_time, b.is_open,
                          IF retry THEN Delay(attempt, o = "net") ELSE 0)
        net == only_net /\ o = "net"
    IN  /\ failure_count' = b.failure_count
        /\ is_open' = b.is_open
        /\ now' = clk[1]
        /\ last_failure_time' = clk[2]
        /\ step' = IF retry THEN "login" ELSE "idle"
        /\ attempt' = IF retry THEN attempt + 1 ELSE 0
        /\ status' = IF o = "ok" THEN "success" ELSE IF retry THEN status ELSE "failed"
        /\ only_net' = (o # "ok" /\ net)
        /\ first_call' = IF attempt > 0 THEN first_call
                         ELSE IF called THEN "driver" ELSE "rejected"
        /\ net_logins' = IF retry THEN net_logins
                         ELSE IF net THEN Min(net_logins + 1, failure_threshold + 1)
                         ELSE 0
        /\ UNCHANGED <<legacy, prior_net, cpc, cbLocals, cbLast, cbHist, lgOthers>>

LoginOnly ==
    /\ step = "login"
    /\ ~legacy
    /\ IF Rejects THEN LoginSettle("net", BreakerNow, FALSE)
       ELSE \E o \in Outcomes :
               /\ o = "net" => failure_count < MaxNetFailures
               /\ LoginSettle(o, BreakerAfter(o), TRUE)

\* csp_admin_change_role_and_branch.py line 1169: run_batch calls self.login
\* once per session, not through a breaker; login (lines 254-306) lets an error
\* of nova.act pass, and line 1209 ends the request with it
LegacyLogin(o) ==
    /\ step = "login"
    /\ legacy
    /\ step' = "idle"
    /\ status' = IF o = "ok" THEN "success" ELSE "failed"
    /\ first_call' = "driver"
    /\ only_net' = (o = "net")
    /\ net_logins' = IF o = "net" THEN Min(net_logins + 1, failure_threshold + 1) ELSE 0
    /\ UNCHANGED <<legacy, prior_net, attempt, cbVars, lgOthers>>

NextLogins == BeginLogin \/ LoginOnly \/ \E o \in Outcomes : LegacyLogin(o)

SpecLogins == LoginsInit /\ [][NextLogins]_vars

\* C13: after three requests in a row whose login was given up on network
\* errors, the first login attempt of the next request is rejected by the
\* breaker without a call of the login handler.
C13_FourthRejected ==
    (prior_net = failure_threshold /\ first_call # "none")
        => first_call = "rejected"

(***************************************************************************)
(* main of csp_admin.py with process_single_user, and main of              *)
(* csp_admin_main.py: one driver session per request                       *)
(***************************************************************************)
MainInit ==
    /\ interactive \in BOOLEAN
    /\ num_users \in 0..MaxUsers
    /\ current_user_index = 0
    /\ mpc = "loop"
    /\ nova = "None"
    /\ res = "none"
    /\ m_success_count = 0
    /\ total_processed = 0
    /\ asked = 0
    /\ ended = [u \in 1..MaxUsers |-> "none"]
    /\ main_returned = "none"
    /\ failed_count_m = 0
    /\ BreakerIdle
    /\ CounterIdle
    /\ PipelineIdle
    /\ BatchIdle
    /\ PoolIdle
    /\ LoginsIdle
    /\ RetryIdle
    /\ StepsIdle

mnOthers == <<cbVars, acVars, psVars, rbButSession, plVars, lgVars, wrVars, yVars>>

\* csp_admin.py line 243 `while current_user_index < len(users)`;
\* csp_admin_main.py line 152 `for i, user in enumerate(users, 1)`
MainLoop ==
    /\ mpc = "loop"
    /\ mpc' = IF current_user_index < num_users THEN "create" ELSE "summary"
    /\ UNCHANGED <<mnParams, current_user_index, nova, res, mnCounts, main_returned,
                   session, mnOthers>>

\* NovaManager.create_for_automation: inside the try block in csp_admin.py
\* (line 157), before it in csp_admin_main.py (line 163)
CreateNova(o) ==
    /\ mpc = "create"
    /\ session' = "none"
    /\ CASE o = "ok" ->
              /\ nova' = "created"
              /\ mpc' = "start"
              /\ UNCHANGED <<res, main_returned>>
         [] o = "raised" /\ interactive ->
              /\ nova' = "None"
              /\ res' = "raised"
              /\ mpc' = "finally"
              /\ UNCHANGED main_returned
         [] o = "raised" /\ ~interactive ->
              /\ main_returned' = "raised"
              /\ mpc' = "done"
              /\ UNCHANGED <<nova, res>>
    /\ UNCHANGED <<mnParams, current_user_index, mnCounts, mnOthers>>

\* nova.start() (csp_admin.py line 162, csp_admin_main.py line 171)
StartNova(o) ==
    /\ mpc = "start"
    /\ IF o = "ok"
          THEN session' = "open" /\ mpc' = "pipeline" /\ UNCHANGED res
          ELSE res' = "raised" /\ mpc' = "finally" /\ UNCHANGED session
    /\ UNCHANGED <<mnParams, current_user_index, nova, mnCounts, main_returned, mnOthers>>

\* process_user_simple / process_user: returns its success flag, or raises
Pipeline(o) ==
    /\ mpc = "pipeline"
    /\ res' = o
    /\ mpc' = "finally"
    /\ UNCHANGED <<mnParams, current_user_index, nova, mnCounts, main_returned,
                   session, mnOthers>>

\* the stop placed at the end of the try body instead of a finally clause
StopsOnReturn(r, n) == r # "raised" /\ n # "None"

\* csp_admin.py lines 185-192 (`finally: if nova: nova.stop()`),
\* csp_admin_main.py lines 197-202: whether nova.stop() is called
Stops(r, n) == n # "None"

\* the except and finally clauses; an error of nova.stop() is swallowed
Finally(o) ==
    /\ mpc = "finally"
    /\ session' = IF Stops(res, nova) /\ session = "open"
                     THEN (IF o = "ok" THEN "closed" ELSE "stop_failed")
                     ELSE session
    /\ ~Stops(res, nova) => o = "ok"
    /\ mpc' = "result"
    /\ UNCHANGED <<mnParams, current_user_index, nova, res, mnCounts, main_returned,
                   mnOthers>>

\* a retry counted as one more failed request
RetryCounted(fc) == fc + 1

\* csp_admin.py lines 279-283: the answer 'y' to the retry question goes back
\* to process_single_user; failed_count after it
RetryCount(fc) == fc

\* csp_admin.py lines 258-297: the counters, the retry question and the
\* continue question; csp_admin_main.py lines 186-190, which has no
\* failed_count
Result(retry, go_on) ==
    /\ mpc = "result"
    /\ nova' = "None"
    /\ res' = "none"
    /\ IF interactive /\ res # "success" /\ retry
          THEN /\ asked < MaxAsked
               /\ go_on
               /\ asked' = asked + 1
               /\ mpc' = "create"
               /\ failed_count_m' = RetryCount(failed_count_m)
               /\ UNCHANGED <<current_user_index, m_success_count, total_processed, ended>>
          ELSE /\ ~retry
               /\ current_user_index' = current_user_index + 1
               /\ m_success_count' = IF res = "success" THEN m_success_count + 1
                                     ELSE m_success_count
               /\ total_processed' = total_processed + 1
               /\ failed_count_m' = IF interactive /\ res # "success"
                                       THEN failed_count_m + 1
                                       ELSE failed_count_m
               /\ ended' = [ended EXCEPT ![current_user_index + 1] =
                               IF res = "success" THEN "success" ELSE "failed"]
               /\ (~interactive \/ current_user_index + 1 >= num_users) => go_on
               /\ mpc' = IF go_on THEN "loop" ELSE "summary"
               /\ UNCHANGED asked
    /\ UNCHANGED <<mnParams, main_returned, session, mnOthers>>

\* csp_admin.py lines 305-322: `return success_count == total_processed`;
\* csp_admin_main.py lines 205-220: line 214 divides by len(users), then
\* `return success_count == len(users)`
MainSummary ==
    /\ mpc = "summary"
    /\ mpc' = "done"
    /\ main_returned' =
          IF interactive
             THEN (IF m_success_count = total_processed THEN "True" ELSE "False")
             ELSE IF num_users = 0 THEN "raised"
             ELSE IF m_success_count = num_users THEN "True" ELSE "False"
    /\ UNCHANGED <<mnParams, current_user_index, nova, res, mnCounts, session, mnOthers>>

NextMain ==
    \/ MainLoop
    \/ \E o \in {"ok", "raised"} : CreateNova(o)
    \/ \E o \in {"ok", "raised"} : StartNova(o)
    \/ \E o \in {"success", "failed", "raised"} : Pipeline(o)
    \/ \E o \in {"ok", "raised"} : Finally(o)
    \/ \E retry \in BOOLEAN, go_on \in BOOLEAN : Result(retry, go_on)
    \/ MainSummary

SpecMain == MainInit /\ [][NextMain]_vars

\* the three runners that open a driver session
SpecSessions == (BatchInit \/ MainInit) /\ [][NextBatch \/ NextMain]_vars

\* C14: whenever the processing of a request (of the batch, in shared-session
\* mode) is over, the driver session opened for it has had its stop issued: no
\* session is left open on any exit path.
C14_SessionClosed ==
    /\ mpc \in {"result", "loop", "summary", "done"} => session # "open"
    /\ rpc \in {"loop", "summary", "done"} => session # "open"

\* a session was opened, the pipeline raised, and the session was stopped
\* before the request was over
C14_Witness ==
    \/ mpc = "result" /\ res = "raised" /\ session = "closed"
    \/ rpc = "loop" /\ user > 0 /\ results[user] = 1 /\ has_failed[user]
          /\ session = "closed" /\ per_user_session /\ start_attempt > 0

\* C38: in the interactive loop success_count + failed_count = total_processed
\* <= number of users at every moment; the counters hold one count for each
\* request that is over, a success for a request that ended well after any
\* number of retries; a retry changes no counter; and the index of the
\* current request never decreases.
C38_CountedOnce ==
    /\ [](interactive =>
            /\ m_success_count + failed_count_m = total_processed
            /\ total_processed <= num_users
            /\ total_processed = current_user_index
            /\ m_success_count = Cardinality({u \in 1..MaxUsers : ended[u] = "success"})
            /\ failed_count_m = Cardinality({u \in 1..MaxUsers : ended[u] = "failed"}))
    /\ [][interactive =>
            /\ current_user_index' >= current_user_index
            /\ (mpc = "result" /\ mpc' = "create")
                  => /\ m_success_count' = m_success_count
                     /\ failed_count_m' = failed_count_m
                     /\ total_processed' = total_processed
            /\ (mpc = "result" /\ res = "success")
                  => /\ m_success_count' = m_success_count + 1
                     /\ failed_count_m' = failed_count_m
            /\ \A u \in 1..MaxUsers : ended[u] # "none" => ended'[u] = ended[u]]_vars

\* the only request failed, was tried again on the operator's answer and then
\* ended well: it is counted once, as a success
C38_Witness ==
    /\ interactive
    /\ mpc = "done"
    /\ num_users = 1
    /\ asked > 0
    /\ ended[1] = "success"
    /\ m_success_count = 1
    /\ failed_count_m = 0
    /\ total_processed = 1

\* C25: the sequential runners take the requests in input order, start a
\* session only when the session before it has had its stop issued, whatever
\* parallel_workers is, and add results only for the current request, so that
\* no later request has a result before it.
C25_OneSessionInOrder ==
    /\ [](/\ (rpc \in {"loop", "start"} \/ mpc \in {"loop", "create", "start"})
               => session # "open"
          /\ user <= total_users
          /\ current_user_index <= num_users
          /\ \A u \in 1..MaxUsers :
                /\ u > user => results[u] = 0
                /\ u > current_user_index => ended[u] = "none"
                /\ (u < user /\ ~per_user_session) => results[u] = 1
                /\ u <= current_user_index => ended[u] # "none")
    /\ [][/\ user' \in {user, user + 1}
          /\ current_user_index' \in {current_user_index, current_user_index + 1}
          /\ \A u \in 1..MaxUsers :
                /\ results'[u] # results[u] => u = user'
                /\ ended'[u] # ended[u] => u = current_user_index']_vars

\* asked for two workers, the runner has closed the session of the first
\* request and is in the session of the second
C25_Witness ==
    /\ parallel_workers = 2
    /\ per_user_session
    /\ user = 2
    /\ results[1] = 1
    /\ results[2] = 0
    /\ session = "open"
    /\ rpc = "body"

\* C29: a batch run that has come to its summary writes it and returns a
\* value; it does not raise, whatever the number of requests.
C29_SummaryCompletes ==
    [][/\ rpc = "summary" => returned' \in {"True", "False"}
       /\ mpc = "summary" => main_returned' \in {"True", "False"}]_vars

\* C19: the value a batch run returns is True exactly when every request of
\* the input ended with a success.
C19_TrueIffAllSucceeded ==
    main_returned \in {"True", "False"} =>
        (main_returned = "True" <=> \A u \in 1..num_users : ended[u] = "success")

(***************************************************************************)
(* with_retry                                                              *)
(***************************************************************************)
\* retry_delay of the decorated handlers (2) and of an undelayed wrapper
RetryDelays == {0, 2}
backoff_multiplier == 2

\* what one invocation of fn does: return, raise an exception listed in
\* exceptions_to_retry, or raise one listed in exceptions_to_skip
FnOutcomes == {"returns", "retryable", "skipped"}

\* lines 168-172: the wrapper is entered
RetryInit ==
    /\ wr_max_retries \in 0..MaxRetries
    /\ retry_delay \in RetryDelays
    /\ wr_attempt = 1
    /\ current_delay = retry_delay
    /\ last_exception = 0
    /\ invocations = <<>>
    /\ slept = 0
    /\ wr_end = "running"
    /\ wr_value = 0
    /\ BreakerIdle
    /\ CounterIdle
    /\ PipelineIdle
    /\ BatchIdle
    /\ PoolIdle
    /\ LoginsIdle
    /\ MainIdle
    /\ StepsIdle

wrOthers == <<cbVars, acVars, psVars, rbVars, plVars, lgVars, mnVars, yVars>>

\* the loop taken through one iteration more
InRangeOneMore(a, m) == a <= m + 1

\* line 174: `for attempt in range(1, max_retries + 1)`
InRange(a, m) == a <= m

\* lines 174-215: one iteration of the loop
Invoke(o) ==
    /\ wr_end = "running"
    /\ InRange(wr_attempt, wr_max_retries)
    /\ invocations' = Append(invocations, o)
    /\ CASE o = "returns" ->
              /\ wr_end' = "returned"
              /\ wr_value' = wr_attempt
              /\ UNCHANGED <<wr_attempt, current_delay, last_exception, slept>>
         [] o = "skipped" ->
              /\ wr_end' = "raised"
              /\ wr_value' = wr_attempt
              /\ UNCHANGED <<wr_attempt, current_delay, last_exception, slept>>
         [] o = "retryable" ->
              /\ last_exception' = wr_attempt
              /\ wr_attempt' = wr_attempt + 1
              /\ IF wr_attempt < wr_max_retries
                    THEN /\ slept' = slept + current_delay
                         /\ current_delay' = current_delay * backoff_multiplier
                    ELSE UNCHANGED <<slept, current_delay>>
              /\ UNCHANGED <<wr_end, wr_value>>
    /\ UNCHANGED <<wrParams, wrOthers>>

\* lines 217-221: `raise RetryException(error_msg) from last_exception`
Exhausted ==
    /\ wr_end = "running"
    /\ ~InRange(wr_attempt, wr_max_retries)
    /\ wr_end' = "RetryException"
    /\ wr_value' = last_exception
    /\ UNCHANGED <<wrParams, wr_attempt, current_delay, last_exception, invocations,
                   slept, wrOthers>>

NextRetry == Exhausted \/ \E o \in FnOutcomes : Invoke(o)

SpecRetry == RetryInit /\ [][NextRetry]_vars

\* C15: for max_retries >= 1 the wrapped function is invoked at most
\* max_retries times and at least once before the call ends; a value returned
\* is that of the first invocation that did not raise, no invocation follows
\* it; when every invocation raised a retryable error the call ends with
\* RetryException carrying the error of the last invocation.
C15_RetryContract ==
    wr_max_retries >= 1 =>
        /\ Len(invocations) <= wr_max_retries
        /\ wr_end # "running" => Len(invocations) >= 1
        /\ wr_end = "returned" =>
              /\ wr_value = Len(invocations)
              /\ invocations[wr_value] = "returns"
              /\ \A i \in 1..(wr_value - 1) : invocations[i] # "returns"
        /\ (wr_end # "running" /\ \A i \in 1..Len(invocations) : invocations[i] = "retryable")
              => /\ wr_end = "RetryException"
                 /\ Len(invocations) = wr_max_retries
                 /\ wr_value = Len(invocations)

\* every one of max_retries > 1 invocations raised and the call ended with
\* RetryException
C15_Witness ==
    /\ wr_end = "RetryException"
    /\ wr_max_retries > 1
    /\ Len(invocations) = wr_max_retries
    /\ wr_value = wr_max_retries

C17_OneSave == save_clicks <= 1

\* C20: after a login, search, role or branch step whose handler reported a
\* failure, no later step of the request runs and no Save click is issued.
C20_NoStepAfterFailure ==
    failed_step \in {"login", "search", "role", "branch"}
        => (step = "idle" /\ ~save_issued)

\* C18: with at least one worker and one request, no exception raised while a
\* request is processed leaves csp_admin_parallel.main.
C18_ExceptionContained ==
    (max_workers >= 1 /\ submitted >= 1) => pool_returned # "raised"

\* C21: a request given up after the retries of a step is failed and its
\* result holds the name of that step.
C21_FailedStepPreserved ==
    (status = "failed" /\ step = "idle") => reported_step = failed_step

(***************************************************************************)
(* The role step: change_user_role (legacy module) and                     *)
(* CSPRoleHandler.change_role                                              *)
(***************************************************************************)
\* what a boolean query of the driver answers, or the call raises
Answers == {"yes", "no", "raised"}

\* runs of the role step on one changer or handler object
MaxRoleCalls == 2

RoleInit ==
    /\ impl \in {"legacy", "handler"}
    /\ rl_pc = "tab"
    /\ mutations = 0
    /\ pre_match = "none"
    /\ verified = "none"
    /\ performed = "unset"
    /\ rl_outcome = "none"
    /\ rl_calls = 1
    /\ BreakerIdle
    /\ CounterIdle
    /\ PipelineIdle
    /\ BatchIdle
    /\ PoolIdle
    /\ LoginsIdle
    /\ MainIdle
    /\ RetryIdle
    /\ LegacyIdle
    /\ WaitIdle
    /\ HistoryIdle

rlRest == <<cbVars, acVars, psVars, rbVars, plVars, lgVars, mnVars, wrVars, luVars,
           wtVars, hVars>>
rlOthers == <<rlRest, rl_calls>>

\* the step is over: it returned True or False, or raised
RoleEnd(out) ==
    /\ rl_pc' = "end"
    /\ rl_outcome' = out

\* an answer taken for a confirmation whenever the query returned
ConfirmsAny(a) == a # "raised"

\* `if role_ok.matches_schema and role_ok.parsed_response` (legacy line 598),
\* `if result.parsed_response` (handler line 80)
Confirms(a) == a = "yes"

\* legacy line 518, handler line 30: click the Roles tab
RoleTab(o) ==
    /\ rl_pc = "tab"
    /\ IF o = "raised" THEN RoleEnd("raised")
       ELSE /\ rl_pc' = IF impl = "legacy" THEN "tab_check" ELSE "pre"
            /\ UNCHANGED rl_outcome
    /\ UNCHANGED <<impl, mutations, pre_match, verified, performed, rlOthers>>

\* legacy lines 522-529: is the Roles tab active
TabCheck(a) ==
    /\ rl_pc = "tab_check"
    /\ CASE a = "raised" -> RoleEnd("raised")
         [] a = "no" -> RoleEnd("False")
         [] a = "yes" -> rl_pc' = "pre" /\ UNCHANGED rl_outcome
    /\ UNCHANGED <<impl, mutations, pre_match, verified, performed, rlOthers>>

\* legacy lines 532-553, handler lines 36-44: does the Role field already show
\* new_role; if so return True
PreCheck(a) ==
    /\ rl_pc = "pre"
    /\ CASE a = "raised" ->
              RoleEnd("raised") /\ UNCHANGED <<pre_match, performed>>
         [] a = "yes" ->
              /\ RoleEnd("True")
              /\ pre_match' = "yes"
              /\ performed' = IF impl = "legacy" THEN "False" ELSE performed
         [] a = "no" ->
              /\ rl_pc' = "mutate"
              /\ pre_match' = "no"
              /\ UNCHANGED <<rl_outcome, performed>>
    /\ UNCHANGED <<impl, mutations, verified, rlOthers>>

\* number of driver actions that set the new role: legacy lines 556-565 (clear,
\* open the dropdown, type and click), handler lines 49-70 (open, click the
\* search field, click the option)
SelectActs == 3

\* one of these actions
Mutate(o) ==
    /\ rl_pc = "mutate"
    /\ mutations' = mutations + 1
    /\ IF o = "raised" THEN RoleEnd("raised")
       ELSE /\ rl_pc' = IF mutations + 1 < SelectActs THEN "mutate"
                        ELSE IF impl = "legacy" THEN "populated" ELSE "verify"
            /\ UNCHANGED rl_outcome
    /\ UNCHANGED <<impl, pre_match, verified, performed, rlOthers>>

\* legacy lines 568-589: is the role populated; if not, one more click on the
\* option and the question again, and return False if it is still not
Populated(a) ==
    /\ rl_pc \in {"populated", "populated_retry"}
    /\ CASE a = "raised" -> RoleEnd("raised")
         [] a = "yes" -> rl_pc' = "verify" /\ UNCHANGED rl_outcome
         [] a = "no" -> IF rl_pc = "populated"
                           THEN rl_pc' = "alternative" /\ UNCHANGED rl_outcome
                           ELSE RoleEnd("False")
    /\ UNCHANGED <<impl, mutations, pre_match, verified, performed, rlOthers>>

\* legacy line 578: the alternative selection
Alternative(o) ==
    /\ rl_pc = "alternative"
    /\ mutations' = mutations + 1
    /\ IF o = "raised" THEN RoleEnd("raised")
       ELSE rl_pc' = "populated_retry" /\ UNCHANGED rl_outcome
    /\ UNCHANGED <<impl, pre_match, verified, performed, rlOthers>>

\* legacy lines 592-606: return True and set the flag if the Role field shows
\* new_role, else return False; handler lines 73-90: return True, else raise
Verify(a) ==
    /\ rl_pc = "verify"
    /\ IF a = "raised"
          THEN RoleEnd("raised") /\ UNCHANGED <<verified, performed>>
          ELSE /\ verified' = a
               /\ IF Confirms(a)
                     THEN /\ RoleEnd("True")
                          /\ performed' = IF impl = "legacy" THEN "True" ELSE performed
                     ELSE /\ RoleEnd(IF impl = "legacy" THEN "False" ELSE "raised")
                          /\ performed' = IF impl = "legacy" THEN "False" ELSE performed
    /\ UNCHANGED <<impl, mutations, pre_match, rlOthers>>

\* the step is run again, for the next request (legacy line 940) or by the
\* retry of the wrapper (csp_admin.py lines 78-83); session_data is kept by the
\* changer object
RoleAgain ==
    /\ rl_pc = "end"
    /\ rl_calls < MaxRoleCalls
    /\ rl_calls' = rl_calls + 1
    /\ rl_pc' = "tab"
    /\ mutations' = 0
    /\ pre_match' = "none"
    /\ verified' = "none"
    /\ rl_outcome' = "none"
    /\ UNCHANGED <<impl, performed, rlRest>>

NextRole ==
    \/ RoleAgain
    \/ \E o \in {"ok", "raised"} : RoleTab(o)
    \/ \E a \in Answers : TabCheck(a)
    \/ \E a \in Answers : PreCheck(a)
    \/ \E o \in {"ok", "raised"} : Mutate(o)
    \/ \E a \in Answers : Populated(a)
    \/ \E o \in {"ok", "raised"} : Alternative(o)
    \/ \E a \in Answers : Verify(a)

SpecRole == RoleInit /\ [][NextRole]_vars

\* C23: after a pre-check that reported the requested role the step issues no
\* action that sets the role and returns True; otherwise it returns True only
\* after the verification that follows the selection confirmed the new value,
\* and a verification that did not confirm makes the step fail.
C23_RoleCheckedAndVerified ==
    /\ pre_match = "yes" => (mutations = 0 /\ rl_outcome = "True")
    /\ pre_match # "yes" => (mutations > 0 => pre_match = "no")
    /\ (rl_outcome = "True" /\ pre_match # "yes")
          => (verified = "yes" /\ mutations >= SelectActs)
    /\ verified = "no" => rl_outcome \in {"False", "raised"}
    /\ (rl_outcome = "True" /\ impl = "legacy")
          => (performed = "True" <=> verified = "yes")

\* the role was selected, the verification confirmed it and the step returned True
C23_Witness ==
    /\ rl_outcome = "True"
    /\ pre_match = "no"
    /\ verified = "yes"
    /\ mutations >= SelectActs

(***************************************************************************)
(* process_single_user of the legacy module                                *)
(***************************************************************************)
LegacyInit ==
    /\ lu_pc = "search"
    /\ role_requested = FALSE
    /\ branch_requested = FALSE
    /\ role_flag = "unset"
    /\ branch_flag = "unset"
    /\ lu_saves = 0
    /\ modal = "none"
    /\ lu_status = "none"
    /\ lu_requests = 1
    /\ role_own = FALSE
    /\ branch_own = FALSE
    /\ lu_text = <<>>
    /\ BreakerIdle
    /\ CounterIdle
    /\ PipelineIdle
    /\ BatchIdle
    /\ PoolIdle
    /\ LoginsIdle
    /\ MainIdle
    /\ RetryIdle
    /\ RoleIdle
    /\ WaitIdle
    /\ HistoryIdle

luRest == <<cbVars, acVars, psVars, rbVars, plVars, lgVars, mnVars, wrVars, rlVars,
           wtVars, hVars>>
luOthers == <<luRest, lu_requests>>

\* `self.session_data.get('last_role_change_performed', False)`
Changed(flag) == flag = "True"

\* a status is kept as its words: the first word, the dash, and the rest
\* `status.startswith("success")`, `status.startswith("failed")` (lines 243,
\* 245): every status has a blank after its first word
startswith(s, p) == Len(s) > 0 /\ Head(s) = p

\* a status that is the text of the error alone
Unprefixed(rest) == rest

\* the statuses 'failed - ...' of lines 922-1055 and 1175-1216
Failed(rest) == <<"failed", "-">> \o rest

\* what str(e) may be at lines 1114 and 1216
ExceptionTexts == {<<>>, <<"success">>, <<"Timeout">>, <<"role", "updated">>}

\* lines 1076-1078: `' and '.join(changed_items)`
ChangedItems(rc, bc) ==
    IF rc /\ bc THEN <<"role", "and", "branch">>
    ELSE IF rc THEN <<"role">>
    ELSE IF bc THEN <<"branch">>
    ELSE <<>>

\* lines 1074-1095: the status of a request that ended well, from what was
\* requested and from the two flags read at lines 1071-1072
StatusMessage(rr, br, rc, bc) ==
    IF rr /\ br
       THEN IF ChangedItems(rc, bc) # <<>>
               THEN <<"success", "-">> \o ChangedItems(rc, bc) \o <<"updated">>
               ELSE <<"success", "-", "no changes needed, already configured correctly">>
    ELSE IF rr
       THEN IF rc THEN <<"success", "-", "role", "updated">>
                  ELSE <<"success", "-", "role already correct">>
    ELSE IF br
       THEN IF bc THEN <<"success", "-", "branch", "updated">>
                  ELSE <<"success", "-", "branch already correct">>
    ELSE <<"success", "-", "no changes requested">>

\* a result with the status st is appended and process_single_user returns
LegacyEnd(st) ==
    /\ lu_pc' = "end"
    /\ lu_text' = st
    /\ lu_status' = IF startswith(st, "success") THEN "success" ELSE "failed"

\* lines 917-935: search_user opens the edit modal of the user, or the request
\* fails with 'failed - user not found'; an exception goes to line 1108
LegacySearch(o, rr, br) ==
    /\ lu_pc = "search"
    /\ IF o = "ok"
          THEN /\ modal' = "open"
               /\ role_requested' = rr
               /\ branch_requested' = br
               /\ lu_pc' = IF rr THEN "role" ELSE IF br THEN "branch" ELSE "finish"
               /\ UNCHANGED <<lu_status, lu_text>>
          ELSE /\ LegacyEnd(Failed(<<"user not found">>))
               /\ UNCHANGED <<modal, role_requested, branch_requested>>
    /\ UNCHANGED <<role_flag, branch_flag, lu_saves, role_own, branch_own, luOthers>>

\* how change_user_role ends: True after the selection was verified, True
\* after the pre-check matched, False, or an exception
RoleOutcomes == {"selected", "match", "False", "raised"}

\* a step that found the field as requested and left the flag as it was
FlagKept(flag) == flag

\* lines 551 and 812: the flag after a step that found the field as requested
FlagAfterMatch(flag) == "False"

\* lines 941-952 and 1001-1011: the role step; it leaves the flag as it was
\* when it returns False before the verification or raises
LegacyRole(o, e) ==
    /\ lu_pc = "role"
    /\ CASE o = "selected" -> role_flag' = "True"
         [] o = "match" -> role_flag' = FlagAfterMatch(role_flag)
         [] o = "False" -> role_flag' \in {role_flag, "False"}
         [] o = "raised" -> role_flag' = role_flag
    /\ role_own' = (o = "selected")
    /\ CASE o \in {"selected", "match"} ->
              /\ lu_pc' = IF branch_requested THEN "branch" ELSE "close"
              /\ UNCHANGED <<lu_status, lu_text>>
         [] o = "False" -> LegacyEnd(Failed(<<"role change failed">>))
         [] o = "raised" -> LegacyEnd(Failed(e))
    /\ UNCHANGED <<role_requested, branch_requested, branch_flag, lu_saves, modal,
                   branch_own, luOthers>>

\* how change_user_branch_hierarchical ends: True with a field updated, True
\* with both fields matching, False before the save, False because the save
\* of auto_save failed, or an exception
BranchOutcomes == {"updated", "match", "False", "save failed", "raised"}

\* lines 964-977 (auto_save=False) and 1041-1055 (auto_save=True): the branch
\* step; lines 793-817 set the flag, and with auto_save click Save
LegacyBranch(o, e) ==
    /\ lu_pc = "branch"
    /\ o = "save failed" => ~role_requested
    /\ CASE o = "updated" ->
              /\ branch_flag' = "True"
              /\ lu_saves' = IF role_requested THEN lu_saves ELSE lu_saves + 1
              /\ modal' = IF role_requested THEN modal ELSE "saved"
         [] o = "match" ->
              /\ branch_flag' = FlagAfterMatch(branch_flag)
              /\ UNCHANGED <<lu_saves, modal>>
         [] o = "save failed" ->
              /\ lu_saves' = lu_saves + 1
              /\ UNCHANGED <<branch_flag, modal>>
         [] OTHER -> UNCHANGED <<branch_flag, lu_saves, modal>>
    /\ branch_own' = (o \in {"updated", "save failed"})
    /\ CASE o \in {"updated", "match"} ->
              /\ lu_pc' = IF role_requested THEN "close" ELSE "finish"
              /\ UNCHANGED <<lu_status, lu_text>>
         [] o \in {"False", "save failed"} -> LegacyEnd(Failed(<<"branch change failed">>))
         [] o = "raised" -> LegacyEnd(Failed(e))
    /\ UNCHANGED <<role_requested, branch_requested, role_flag, role_own, luOthers>>

\* lines 981-998: role and branch: save_changes if a step changed a field,
\* else close the edit modal; lines 1013-1029: role only: save_changes if the
\* role changed, else nothing but a log line
LegacyClose(o, e) ==
    /\ lu_pc = "close"
    /\ IF (branch_requested /\ (Changed(role_flag) \/ Changed(branch_flag)))
          \/ (~branch_requested /\ Changed(role_flag))
          THEN /\ lu_saves' = lu_saves + 1
               /\ CASE o = "ok" ->
                         modal' = "saved" /\ lu_pc' = "finish"
                                          /\ UNCHANGED <<lu_status, lu_text>>
                    [] o = "failed" ->
                         LegacyEnd(Failed(<<"save failed">>)) /\ UNCHANGED modal
                    [] o = "raised" -> LegacyEnd(Failed(e)) /\ UNCHANGED modal
          ELSE /\ UNCHANGED lu_saves
               /\ IF branch_requested
                     THEN IF o = "ok"
                             THEN /\ modal' = "closed"
                                  /\ lu_pc' = "finish"
                                  /\ UNCHANGED <<lu_status, lu_text>>
                             ELSE /\ o = "raised"
                                  /\ LegacyEnd(Failed(e))
                                  /\ UNCHANGED modal
                     ELSE /\ o = "ok"
                          /\ lu_pc' = "finish"
                          /\ UNCHANGED <<modal, lu_status, lu_text>>
    /\ UNCHANGED <<role_requested, branch_requested, role_flag, branch_flag, role_own,
                   branch_own, luOthers>>

\* lines 1066-1106: the result with a 'success - ...' status
LegacyFinish ==
    /\ lu_pc = "finish"
    /\ LegacyEnd(StatusMessage(role_requested, branch_requested,
                               Changed(role_flag), Changed(branch_flag)))
    /\ UNCHANGED <<role_requested, branch_requested, role_flag, branch_flag, lu_saves,
                   modal, role_own, branch_own, luOthers>>

\* run_batch line 1234: the next request on the same changer object, whose
\* session_data keeps the flags
LegacyNext ==
    /\ lu_pc = "end"
    /\ lu_requests < MaxUsers
    /\ lu_requests' = lu_requests + 1
    /\ lu_pc' = "search"
    /\ role_requested' = FALSE
    /\ branch_requested' = FALSE
    /\ lu_saves' = 0
    /\ modal' = "none"
    /\ lu_status' = "none"
    /\ role_own' = FALSE
    /\ branch_own' = FALSE
    /\ lu_text' = <<>>
    /\ UNCHANGED <<role_flag, branch_flag, luRest>>

NextLegacy ==
    \/ \E o \in {"ok", "failed"}, rr \in BOOLEAN, br \in BOOLEAN : LegacySearch(o, rr, br)
    \/ \E o \in RoleOutcomes, e \in ExceptionTexts : LegacyRole(o, e)
    \/ \E o \in BranchOutcomes, e \in ExceptionTexts : LegacyBranch(o, e)
    \/ \E o \in {"ok", "failed", "raised"}, e \in ExceptionTexts : LegacyClose(o, e)
    \/ LegacyFinish
    \/ LegacyNext

SpecLegacy == LegacyInit /\ [][NextLegacy]_vars

\* C22: a request that asked for a change and ends successfully with no field
\* changed has clicked Save zero times and its edit modal has been closed.
C22_UnchangedClosesModal ==
    (/\ lu_pc = "end"
     /\ lu_status = "success"
     /\ role_requested \/ branch_requested
     /\ role_requested => ~Changed(role_flag)
     /\ branch_requested => ~Changed(branch_flag))
       => (lu_saves = 0 /\ modal = "closed")

\* C35: a request that has ended reports 'updated' for a field only if its own
\* step changed that field, its Save clicks follow a change of its own, and the
\* status of a successful request is the one its own steps give, whatever the
\* flags an earlier request left in session_data.
C35_OwnStepsOnly ==
    lu_pc = "end" =>
        /\ (startswith(lu_text, "success") /\ lu_text[Len(lu_text)] = "updated")
              => /\ (\E i \in 1..Len(lu_text) : lu_text[i] = "role") => role_own
                 /\ (\E i \in 1..Len(lu_text) : lu_text[i] = "branch") => branch_own
        /\ lu_saves > 0 => (role_own \/ branch_own)
        /\ lu_status = "success"
              => lu_text = StatusMessage(role_requested, branch_requested,
                                         role_own, branch_own)

\* a branch-only request ended with 'branch already correct' and no Save while
\* the role flag of an earlier request was still set
C35_Witness ==
    /\ lu_pc = "end"
    /\ lu_requests > 1
    /\ Changed(role_flag)
    /\ ~role_requested
    /\ branch_requested
    /\ lu_text = <<"success", "-", "branch already correct">>
    /\ lu_saves = 0

(***************************************************************************)
(* The waits for the page to settle: wait_for_loading_complete and         *)
(* wait_for_element of wait_utils.py, and wait_for_loading_complete of the *)
(* legacy module                                                           *)
(***************************************************************************)
\* the call sites: csp_save_handler.py line 32; legacy lines 385, 485, 656,
\* 719 and 800; wait_for_element has no caller
LoadingSites ==
    {"save_handler", "legacy_search", "legacy_edit_modal", "legacy_bank_panel",
     "legacy_scope_panel", "legacy_auto_save"}
WaitSites == LoadingSites \cup {"wait_for_element"}

\* timeout_seconds=60 at every call site; the default of wait_for_element
WaitCeiling == [s \in WaitSites |-> IF s = "wait_for_element" THEN 30 ELSE 60]

\* check_interval of wait_utils.py (line 12), `time.sleep(2)` at line 93 and at
\* line 181 of the legacy module
check_interval == 2

\* seconds an observation of the driver may take
MaxActSeconds == 1

WaitInit ==
    /\ wt_site \in WaitSites
    /\ timeout_seconds = WaitCeiling[wt_site]
    /\ wt_elapsed = 0
    /\ polls = 0
    /\ observed = "none"
    /\ wt_result = "none"
    /\ step_result = "none"
    /\ BreakerIdle
    /\ CounterIdle
    /\ PipelineIdle
    /\ BatchIdle
    /\ PoolIdle
    /\ LoginsIdle
    /\ MainIdle
    /\ RetryIdle
    /\ RoleIdle
    /\ LegacyIdle
    /\ HistoryIdle

wtOthers == <<cbVars, acVars, psVars, rbVars, plVars, lgVars, mnVars, wrVars, rlVars,
             luVars, hVars, wt_site, timeout_seconds>>

\* a loop that goes on whatever the time
InTimeAlways(e, t) == TRUE

\* `while time.time() - start_time < timeout_seconds`
InTime(e, t) == e < t

\* what the observation says of the page.  a: the boolean answer, "unparsed"
\* when it does not match the schema.  wait_utils.py line 41 and legacy line
\* 174: no loading indicator is visible; wait_utils.py line 87: the element is
\* visible
Observation(site, a) ==
    IF a = "unparsed" THEN "unparsed"
    ELSE IF site = "wait_for_element"
            THEN (IF a = "yes" THEN "settled" ELSE "waiting")
            ELSE (IF a = "no" THEN "settled" ELSE "waiting")

\* one turn of the loop: the observation, which takes d seconds, then the
\* return of True or the sleep; an exception of nova.act leaves the function
Poll(a, d) ==
    /\ wt_result = "none"
    /\ InTime(wt_elapsed, timeout_seconds)
    /\ polls' = polls + 1
    /\ IF a = "raised"
          THEN /\ wt_result' = "raised"
               /\ wt_elapsed' = wt_elapsed + d
               /\ UNCHANGED observed
          ELSE /\ observed' = Observation(wt_site, a)
               /\ IF observed' = "settled"
                     THEN /\ wt_result' = "True"
                          /\ wt_elapsed' = wt_elapsed + d
                     ELSE /\ wt_elapsed' = wt_elapsed + d + check_interval
                          /\ UNCHANGED wt_result
    /\ UNCHANGED <<step_result, wtOthers>>

\* the loop condition is false: `return False`
Expire ==
    /\ wt_result = "none"
    /\ ~InTime(wt_elapsed, timeout_seconds)
    /\ wt_result' = "False"
    /\ UNCHANGED <<wt_elapsed, polls, observed, step_result, wtOthers>>

\* what the caller does with the value: csp_save_handler.py lines 32-37 raise
\* "Save operation timeout"; legacy lines 385-388, 485-492, 656-658, 719-721
\* and 800-806 return False
Caller ==
    /\ wt_site \in LoadingSites
    /\ wt_result \in {"True", "False"}
    /\ step_result = "none"
    /\ step_result' = IF wt_result = "True" THEN "continues" ELSE "fails"
    /\ UNCHANGED <<wt_elapsed, polls, observed, wt_result, wtOthers>>

NextWait ==
    \/ \E a \in {"yes", "no", "unparsed", "raised"}, d \in 0..MaxActSeconds : Poll(a, d)
    \/ Expire
    \/ Caller

\* the loop runs in the thread of its caller, which does nothing else
SpecWait == WaitInit /\ [][NextWait]_vars /\ WF_vars(NextWait)

\* C30: a wait makes its observations at least check_interval seconds apart
\* and none after the ceiling, returns True exactly on an observation that
\* reports the page settled and False only when the ceiling has passed, ends
\* in every run, and a wait that returned False makes the calling step fail.
C30_WaitBounded ==
    /\ [](/\ wt_result = "none" => polls * check_interval <= wt_elapsed
          /\ wt_elapsed < timeout_seconds + check_interval + MaxActSeconds
          /\ polls * check_interval < timeout_seconds + check_interval
          /\ wt_result = "True" <=> observed = "settled"
          /\ wt_result = "False" => wt_elapsed >= timeout_seconds
          /\ step_result = "continues" => wt_result = "True"
          /\ (wt_result = "False" /\ step_result # "none") => step_result = "fails")
    /\ <>(wt_result # "none")
    /\ [](wt_result = "False" /\ wt_site \in LoadingSites => <>(step_result = "fails"))

\* the page never settled, the wait returned False after the ceiling and the
\* calling step failed
C30_Witness ==
    /\ wt_result = "False"
    /\ polls * check_interval >= timeout_seconds - MaxActSeconds * polls
    /\ polls >= 2
    /\ observed = "waiting"
    /\ step_result = "fails"

(***************************************************************************)
(* The web interface: run_automation and run_automation_background of      *)
(* web_app.py, served by the threaded development server (line 217)        *)
(***************************************************************************)
WebInit ==
    /\ WebIdle
    /\ ReportIdle
    /\ BreakerIdle
    /\ CounterIdle
    /\ PipelineIdle
    /\ BatchIdle
    /\ PoolIdle
    /\ LoginsIdle
    /\ MainIdle
    /\ RetryIdle
    /\ RoleIdle
    /\ LegacyIdle
    /\ WaitIdle
    /\ StartsIdle
    /\ NovasIdle

wbOthers == <<cbVars, acVars, psVars, rbVars, plVars, lgVars, mnVars, wrVars, zVars,
             shVars, nvVars, rpVars>>

\* a POST to /api/run-automation reaches its handler
Arrive(r) ==
    /\ wpc[r] = "idle"
    /\ wpc' = [wpc EXCEPT ![r] = "L126"]
    /\ UNCHANGED <<running, web_success, bg, wbOthers>>

\* lines 126-130: `if automation_status['running']`: the request is refused
CheckRunning(r) ==
    /\ wpc[r] = "L126"
    /\ wpc' = [wpc EXCEPT ![r] = IF running THEN "refused" ELSE "L133"]
    /\ UNCHANGED <<running, web_success, bg, wbOthers>>

\* lines 132-138: input.json must exist
CheckInput(r, exists) ==
    /\ wpc[r] = "L133"
    /\ wpc' = [wpc EXCEPT ![r] = IF exists THEN "L141" ELSE "refused"]
    /\ UNCHANGED <<running, web_success, bg, wbOthers>>

\* lines 141-145: automation_status is bound to a new dictionary
SetStatus(r) ==
    /\ wpc[r] = "L141"
    /\ running' = TRUE
    /\ web_success' = "None"
    /\ wpc' = [wpc EXCEPT ![r] = "L148"]
    /\ UNCHANGED <<bg, wbOthers>>

\* lines 148-155: the background thread is started and the request answered
StartThread(r) ==
    /\ wpc[r] = "L148"
    /\ bg' = [bg EXCEPT ![r] = "running"]
    /\ wpc' = [wpc EXCEPT ![r] = "started"]
    /\ UNCHANGED <<running, web_success, wbOthers>>

\* lines 157-181, run_automation_background: csp_main returns True or False or
\* raises; the finally clause sets running to False
Background(r, o) ==
    /\ bg[r] = "running"
    /\ bg' = [bg EXCEPT ![r] = "finished"]
    /\ web_success' = IF o = "True" THEN "True" ELSE "False"
    /\ running' = FALSE
    /\ UNCHANGED <<wpc, wbOthers>>

\* the handler thread is free for the next request once its answer is sent
\* and the run it started is over
Answered(r) ==
    /\ wpc[r] \in {"refused", "started"}
    /\ bg[r] # "running"
    /\ wpc' = [wpc EXCEPT ![r] = "idle"]
    /\ UNCHANGED <<running, web_success, bg, wbOthers>>

NextWeb ==
    \E r \in 1..MaxRequests :
        \/ Arrive(r)
        \/ Answered(r)
        \/ CheckRunning(r)
        \/ \E exists \in BOOLEAN : CheckInput(r, exists)
        \/ SetStatus(r)
        \/ StartThread(r)
        \/ \E o \in {"True", "False", "raised"} : Background(r, o)

SpecWeb == WebInit /\ [][NextWeb]_vars

\* C37: at most one background thread of the web interface runs at a time,
\* and when no run is in progress and no request is about to start one the
\* running flag is False.
C37_OneRunAtATime ==
    /\ Cardinality({r \in 1..MaxRequests : bg[r] = "running"}) <= 1
    /\ (\A r \in 1..MaxRequests : bg[r] # "running" /\ wpc[r] # "L148") => ~running

(***************************************************************************)
(* save_results of the legacy module: the report written from self.results *)
(***************************************************************************)
\* the literal texts after 'failed - ' at lines 924, 947, 972, 989, 1175,
\* 1186 and 1206
FailureTexts ==
    {"user not found", "role change failed", "branch change failed", "save failed",
     "login failed", "navigation failed", "start timeout"}

\* every status that process_single_user and run_batch append to self.results
RecordedStatuses ==
    {StatusMessage(rr, br, rc, bc) : rr \in BOOLEAN, br \in BOOLEAN, rc \in BOOLEAN,
                                    bc \in BOOLEAN}
       \cup {Failed(<<m>>) : m \in FailureTexts}
       \cup {Failed(e) : e \in ExceptionTexts}

ReportInit ==
    /\ ReportIdle
    /\ WebIdle
    /\ BreakerIdle
    /\ CounterIdle
    /\ PipelineIdle
    /\ BatchIdle
    /\ PoolIdle
    /\ LoginsIdle
    /\ MainIdle
    /\ RetryIdle
    /\ RoleIdle
    /\ LegacyIdle
    /\ WaitIdle
    /\ StartsIdle
    /\ NovasIdle

rpOthers == <<cbVars, acVars, psVars, rbVars, plVars, lgVars, mnVars, wrVars, zVars,
             shVars, nvVars, wbVars>>

\* `self.results.append(RoleChangeResult(... status=st ...))`
RecordResult(st) ==
    /\ Len(recorded) < MaxResults
    /\ recorded' = recorded \o <<st>>
    /\ UNCHANGED <<report_data, rpOthers>>

\* `len([r for r in self.results if r.status.startswith(p)])`
CountStatuses(rs, p) == Cardinality({i \in 1..Len(rs) : startswith(rs[i], p)})

\* lines 240-247: results_data
ResultsData(rs) ==
    [total_users |-> Len(rs),
     successful |-> CountStatuses(rs, "success"),
     failed |-> CountStatuses(rs, "failed"),
     results |-> rs]

\* lines 235-252: save_results writes the file
WriteReport ==
    /\ report_data' = <<ResultsData(recorded)>>
    /\ UNCHANGED <<recorded, rpOthers>>

NextReport ==
    \/ \E st \in RecordedStatuses : RecordResult(st)
    \/ WriteReport

SpecReport == ReportInit /\ [][NextReport]_vars

\* C36: in a saved report successful + failed = total_users = the number of
\* results in it, and every status recorded starts with exactly one of
\* 'success' and 'failed'.
C36_ReportAddsUp ==
    /\ \A i \in 1..Len(recorded) :
          startswith(recorded[i], "success") # startswith(recorded[i], "failed")
    /\ Len(report_data) = 1 =>
          /\ report_data[1].successful + report_data[1].failed
                = report_data[1].total_users
          /\ report_data[1].total_users = Len(report_data[1].results)

\* a report with one success and one failure whose error text is 'success'
C36_Witness ==
    /\ Len(report_data) = 1
    /\ report_data[1].successful = 1
    /\ report_data[1].failed = 1
    /\ report_data[1].results = <<<<"success", "-", "role", "updated">>,
                                  <<"failed", "-", "success">>>>

====
